---- MODULE Spec2Model ----
(***************************************************************************)
(* State-machine model of cendf's containers (src/cendf/dstructures.c):    *)
(*   xsec_t   - parallel float arrays xs / energy with binary search and   *)
(*              linear interpolation                                       *)
(*   vector_t - growable float array                                       *)
(*   dict_t   - string -> float hash map with separate chaining            *)
(*                                                                         *)
(* A caller owns one container at a time (`unit`); errno is the process    *)
(* wide error indicator.  Floats are modelled by integers; a result of     *)
(* interp_xsec is the exact fraction <<numerator, denominator>>.           *)
(* Arrays are modelled by the sequence of their first `len` slots          *)
(* (index i of the C array is position i+1 of the sequence).               *)
(***************************************************************************)
EXTENDS Integers, Sequences, FiniteSets, TLC

VARIABLES
    unit,      \* which container the caller created: "xsec", "vector", "dict", "growth"
    errno,     \* the C error indicator: "0", "EINVAL", "ERANGE", "ENOMEM"
    op,        \* name of the last function called ("init" right after construction)
    arg,       \* its arguments (a tuple)
    ret,       \* its return value
    crashed,   \* the process was terminated by an invalid memory access
    xsec,      \* struct xsec_t: [xs, energy, len, alloc]
    live,      \* which of the handles xsec.xs / xsec.energy refer to live storage
    lower,     \* find_indices' out-parameter *lower of the last interp_xsec call
    upper,     \* find_indices' out-parameter *upper of the last interp_xsec call
    vec,       \* struct vector_t: [data, len, alloc]
    was,       \* the vector_t vec as it was when the last call began
    copy,      \* the vector_t returned by copy_vector: [made, own, used, v]
    dict,      \* struct dict_t: [keyValues, hash_size, len, alloc]
    str1,      \* struct string_t: [str, len, alloc]; str holds the alloc bytes
               \* of the block, as unsigned values, 0 being NUL
    str2,      \* a second string_t, made by copy_string or init_string:
               \* [made, own, used, b]
    galloc,    \* growth computation: the capacity it is applied to
    gnew       \* growth computation: the capacities it yields for an array and
               \* for a dictionary (0 before it ran)

vars == <<unit, errno, op, arg, ret, crashed, xsec, live, lower, upper,
          vec, was, copy, dict, str1, str2, galloc, gnew>>

growthVars == <<galloc, gnew>>

----------------------------------------------------------------------------
(* Bounds of the model *)

\* most pairs the caller pushes into an xsec_t
MaxLen == 3
\* largest initial capacity the caller passes to init_xsec
MaxInitCap == 2
\* most elements the caller puts into a vector_t
MaxVecLen == 5
\* largest initial capacity the caller passes to init_vector
MaxVecInitCap == 4
\* most successful insert_dict calls on one dictionary
MaxInserts == 6
\* longest string literal passed to a string_t function
MaxTextLen == 1
\* largest capacity a string_t is grown to
MaxStrAlloc == 5

\* cross-section values, energies stored, and energies queried
XsValues == {10, 30}
EnergyValues == {2, 4, 6}
Queries == 1 .. 7

\* the characters of string literals, as unsigned bytes ('a' and a byte
\* above 127), the literals, and what a byte of a fresh heap block may hold
Chars == {97, 200}
Texts == UNION {[1 .. n -> Chars] : n \in 0 .. MaxTextLen}
Garbage == {0, 200}

\* vector elements, dictionary values
VecValues == {1, 2}
DictValues == {1, 2}

\* dictionary keys as byte strings: "a", "d", "g".  Their hashes stay far
\* below SIZE_MAX, so hash_function never wraps on them.  All three share a
\* bucket of 3, "a" and "g" share a bucket of 6, none share a bucket of 12
Keys == {<<97>>, <<100>>, <<103>>}

\* capacities the growth computation is applied to: small ones and the ones
\* around the 1 MiB threshold
GrowthInputs ==
    (0 .. 24) \cup (1 * 1024 * 1024 - 12 .. 1 * 1024 * 1024 + 12)
        \cup {2 * 1024 * 1024, 3 * 1024 * 1024}

\* size_t is modelled 30 bits wide, so that TLC's integers hold SIZE_MAX
SizeMod == 2 ^ 30

----------------------------------------------------------------------------
(* Program constants *)

XSEC_THRESHOLD == 1 * 1024 * 1024
XSEC_FIXED_AMOUNT == 1 * 1024 * 1024
hashSize == 3

\* float.h's FLT_MIN and FLT_MAX, the error values of the vector and of the
\* dictionary: stand-ins that lie outside VecValues and DictValues
FLT_MIN == 0
FLT_MAX == 1000

\* -1.0f, the error value of get_xsec / get_xsec_energy / interp_xsec;
\* as an interp_xsec result it is the fraction -1/1
XsecError == 0 - 1
InterpError == <<XsecError, 1>>

----------------------------------------------------------------------------
(* Growth of the capacity, as written in push_xsec, push_back_vector,      *)
(* push_front_vector and insert_vector                                     *)

\* a plausible slip: grows by one slot instead of doubling
NewAllocPlusOne(alloc) ==
    LET new_alloc == IF alloc = 0 THEN 1 ELSE alloc
    IN  IF new_alloc < XSEC_THRESHOLD THEN new_alloc + 1
        ELSE new_alloc + XSEC_FIXED_AMOUNT

NewAlloc(alloc) ==
    LET new_alloc == IF alloc = 0 THEN 1 ELSE alloc
    IN  IF new_alloc < XSEC_THRESHOLD THEN new_alloc * 2
        ELSE new_alloc + XSEC_FIXED_AMOUNT

----------------------------------------------------------------------------
(* xsec_t *)

\* size_t subtraction wraps around
SizeSub(a, b) == (a - b + SizeMod) % SizeMod

\* no table: before init_xsec and after free_xsec
NoXsec == [xs |-> <<>>, energy |-> <<>>, len |-> 0, alloc |-> 0]

\* a plausible slip: the table starts with every slot counted as used
init_xsec_full(buffer_length) ==
    [xs |-> <<>>, energy |-> <<>>, len |-> buffer_length,
     alloc |-> buffer_length]

\* init_xsec, every allocation succeeding: an empty table of the capacity
\* asked for
init_xsec(buffer_length) ==
    [xs |-> <<>>, energy |-> <<>>, len |-> 0, alloc |-> buffer_length]

\* a float that is not a number (NAN): a stand-in outside every set of values
NaN == 0 - 1000

\* the comparisons == and < of two floats: false as soon as one is not a
\* number
FloatEqual(a, b) == a # NaN /\ b # NaN /\ a = b
FloatLess(a, b) == a # NaN /\ b # NaN /\ a < b

\* the while loop of find_indices; oob: an index outside the array was read
RECURSIVE BinarySearch(_, _, _, _, _)
BinarySearch(array, size, value, low, high) ==
    IF ~(low <= high)
    THEN [found |-> FALSE, lower |-> high, upper |-> low, oob |-> FALSE]
    ELSE LET mid == low + (high - low) \div 2
         IN  IF mid >= size
             THEN [found |-> FALSE, lower |-> high, upper |-> low, oob |-> TRUE]
             ELSE IF FloatEqual(array[mid + 1], value)
             THEN [found |-> TRUE, lower |-> mid, upper |-> mid, oob |-> FALSE]
             ELSE IF FloatLess(array[mid + 1], value)
             THEN BinarySearch(array, size, value, mid + 1, high)
             ELSE BinarySearch(array, size, value, low, SizeSub(mid, 1))

\* a plausible slip: the above-range branch does not set errno
find_indices_NoErrnoAbove(array, size, value) ==
    LET low == 0
        high == SizeSub(size, 1)
    IN  IF FloatLess(value, array[low + 1])
        THEN [found |-> FALSE, lower |-> 0, upper |-> 1,
              oob |-> FALSE, erange |-> TRUE]
        ELSE IF FloatLess(array[high + 1], value)
        THEN [found |-> FALSE, lower |-> SizeSub(high, 1), upper |-> high,
              oob |-> FALSE, erange |-> FALSE]
        ELSE LET r == BinarySearch(array, size, value, low, high)
             IN  [found |-> r.found, lower |-> r.lower, upper |-> r.upper,
                  oob |-> r.oob, erange |-> FALSE]

\* a plausible slip: the upper bound is exclusive (>= instead of >)
find_indices_ExclusiveUpper(array, size, value) ==
    LET low == 0
        high == SizeSub(size, 1)
    IN  IF FloatLess(value, array[low + 1])
        THEN [found |-> FALSE, lower |-> 0, upper |-> 1,
              oob |-> FALSE, erange |-> TRUE]
        ELSE IF value >= array[high + 1]
        THEN [found |-> FALSE, lower |-> SizeSub(high, 1), upper |-> high,
              oob |-> FALSE, erange |-> TRUE]
        ELSE LET r == BinarySearch(array, size, value, low, high)
             IN  [found |-> r.found, lower |-> r.lower, upper |-> r.upper,
                  oob |-> r.oob, erange |-> FALSE]

\* find_indices; erange: the call set errno to ERANGE
find_indices(array, size, value) ==
    LET low == 0
        high == SizeSub(size, 1)
    IN  IF FloatLess(value, array[low + 1])
        THEN [found |-> FALSE, lower |-> 0, upper |-> 1,
              oob |-> FALSE, erange |-> TRUE]
        ELSE IF FloatLess(array[high + 1], value)
        THEN [found |-> FALSE, lower |-> SizeSub(high, 1), upper |-> high,
              oob |-> FALSE, erange |-> TRUE]
        ELSE LET r == BinarySearch(array, size, value, low, high)
             IN  [found |-> r.found, lower |-> r.lower, upper |-> r.upper,
                  oob |-> r.oob, erange |-> FALSE]

\* the values a read of xs[index] can yield: the stored one, or any value at
\* all when the handle xs refers to freed storage or the slot was never written
ReadXs(index) ==
    IF "xs" \in live /\ index < xsec.len THEN {xsec.xs[index + 1]} ELSE XsValues

\* the values a read of energy[index] can yield
ReadEnergy(index) ==
    IF "energy" \in live /\ index < xsec.len THEN {xsec.energy[index + 1]}
    ELSE EnergyValues

\* XS1 + (XS2 - XS1) * (energy - E1) / (E2 - E1) as an exact fraction
Interpolate(XS1, XS2, E1, E2, e) ==
    <<XS1 * (E2 - E1) + (XS2 - XS1) * (e - E1), E2 - E1>>

\* lower and upper are locals of interp_xsec: they hold find_indices' answer
\* after an interp_xsec call and nothing (0) after any other call
NoSearch == lower' = 0 /\ upper' = 0

\* every function records its name, arguments, return value and errno
Call(name, a, r, e) ==
    /\ op' = name
    /\ arg' = a
    /\ ret' = r
    /\ errno' = e
    /\ UNCHANGED crashed

\* the process dies inside the function: nothing is returned
Crash(name, a) ==
    /\ op' = name
    /\ arg' = a
    /\ crashed' = TRUE
    /\ UNCHANGED <<ret, errno>>

\* what realloc does in a growing push_xsec: both calls succeed, the first
\* (xs) fails, or the first succeeds and the second (energy) fails
ReallocOutcomes == {"ok", "xs_fail", "energy_fail"}

\* a plausible slip: the new pair is stored in slot 0
AppendedAtFront(xs, xsv, e, new_alloc) ==
    [xs |-> <<xsv>> \o xs, energy |-> <<e>> \o xsec.energy,
     len |-> xsec.len + 1, alloc |-> new_alloc]

\* the struct after the pair is appended, with capacity new_alloc
Appended(xs, xsv, e, new_alloc) ==
    [xs |-> Append(xs, xsv), energy |-> Append(xsec.energy, e),
     len |-> xsec.len + 1, alloc |-> new_alloc]

\* push_xsec while both handles are live
push_xsec(xsv, e, r) ==
    /\ unit = "xsec" /\ ~crashed /\ xsec.len < MaxLen
    /\ "xs" \in live
    /\ IF xsec.alloc <= xsec.len
       THEN CASE r = "xs_fail" ->
                   \* realloc of xs failed: nothing was changed
                   /\ Call("push_xsec", <<xsv, e, r>>, FALSE, "ENOMEM")
                   /\ UNCHANGED <<xsec, live>>
              [] r = "energy_fail" ->
                   \* realloc of xs succeeded (the old block is gone) and the
                   \* new block is freed; cross_section->xs was not updated
                   /\ Call("push_xsec", <<xsv, e, r>>, FALSE, "ENOMEM")
                   /\ live' = live \ {"xs"}
                   /\ UNCHANGED xsec
              [] r = "ok" ->
                   /\ Call("push_xsec", <<xsv, e, r>>, TRUE, errno)
                   /\ xsec' = Appended(xsec.xs, xsv, e, NewAlloc(xsec.alloc))
                   /\ UNCHANGED live
       ELSE /\ r = "ok"
            /\ Call("push_xsec", <<xsv, e, r>>, TRUE, errno)
            /\ xsec' = Appended(xsec.xs, xsv, e, xsec.alloc)
            /\ UNCHANGED live
    /\ NoSearch
    /\ UNCHANGED <<unit, vec, was, copy, dict, growthVars, str1, str2>>

\* push_xsec while cross_section->xs refers to freed storage: the table is
\* full, so realloc is handed a freed pointer.  The allocator aborts, or
\* reports failure, or hands back a block whose contents are arbitrary.
push_xsec_freed(xsv, e) ==
    /\ unit = "xsec" /\ ~crashed /\ xsec.len < MaxLen
    /\ "xs" \notin live
    /\ \/ /\ Crash("push_xsec", <<xsv, e, "ok">>)
          /\ UNCHANGED <<xsec, live>>
       \/ /\ Call("push_xsec", <<xsv, e, "xs_fail">>, FALSE, "ENOMEM")
          /\ UNCHANGED <<xsec, live>>
       \/ \E g \in [1 .. xsec.len -> XsValues] :
             /\ Call("push_xsec", <<xsv, e, "ok">>, TRUE, errno)
             /\ xsec' = Appended(g, xsv, e, NewAlloc(xsec.alloc))
             /\ live' = live \cup {"xs"}
    /\ NoSearch
    /\ UNCHANGED <<unit, vec, was, copy, dict, growthVars, str1, str2>>

\* a plausible slip: the index equal to the length passes
validate_xsec_inclusive(index) == index <= xsec.len

\* validate_xsec (the handle is never NULL here)
validate_xsec(index) == index < xsec.len

get_xsec(index) ==
    /\ unit = "xsec" /\ ~crashed
    /\ IF ~validate_xsec(index)
       THEN Call("get_xsec", <<index>>, XsecError, "EINVAL")
       ELSE \/ \E v \in ReadXs(index) : Call("get_xsec", <<index>>, v, errno)
            \/ "xs" \notin live /\ Crash("get_xsec", <<index>>)
    /\ NoSearch
    /\ UNCHANGED <<unit, xsec, live, vec, was, copy, dict, growthVars, str1, str2>>

get_xsec_energy(index) ==
    /\ unit = "xsec" /\ ~crashed
    /\ IF ~validate_xsec(index)
       THEN Call("get_xsec_energy", <<index>>, XsecError, "EINVAL")
       ELSE \E v \in ReadEnergy(index) :
                Call("get_xsec_energy", <<index>>, v, errno)
    /\ NoSearch
    /\ UNCHANGED <<unit, xsec, live, vec, was, copy, dict, growthVars, str1, str2>>

get_xsec_data(index) ==
    /\ unit = "xsec" /\ ~crashed
    /\ IF ~validate_xsec(index)
       THEN Call("get_xsec_data", <<index>>, <<XsecError, XsecError>>, "EINVAL")
       ELSE \/ \E v \in ReadXs(index), e \in ReadEnergy(index) :
                  Call("get_xsec_data", <<index>>, <<v, e>>, errno)
            \/ "xs" \notin live /\ Crash("get_xsec_data", <<index>>)
    /\ NoSearch
    /\ UNCHANGED <<unit, xsec, live, vec, was, copy, dict, growthVars, str1, str2>>

\* the handles free_xsec is called with: NULL, as init_xsec returns it when
\* it cannot allocate, or the table
XsecHandles == {"NULL", "cross_section"}

\* free_xsec.  With a NULL handle the function sets errno and goes on (there
\* is no return in the if block) to read cross_section->xs through the null
\* pointer: the process dies, with errno set or (a build that drops the
\* null test because of the read behind it) not.  With the table, a handle
\* that refers to freed storage is freed a second time: the allocator
\* aborts or does not notice.  After the call there is no table (unit
\* "freed").
free_xsec(handle) ==
    /\ unit = "xsec" /\ ~crashed
    /\ op' = "free_xsec"
    /\ arg' = <<handle>>
    /\ IF handle = "NULL"
       THEN /\ op = "init"
            /\ crashed' = TRUE
            /\ errno' \in {errno, "EINVAL"}
            /\ UNCHANGED <<unit, xsec, live>>
       ELSE \/ /\ {"xs", "energy"} \subseteq live
               /\ unit' = "freed"
               /\ xsec' = NoXsec
               /\ live' = {}
               /\ UNCHANGED <<errno, crashed>>
            \/ /\ ~({"xs", "energy"} \subseteq live)
               /\ \/ crashed' = TRUE /\ UNCHANGED <<unit, xsec, live>>
                  \/ /\ unit' = "freed"
                     /\ xsec' = NoXsec
                     /\ live' = {}
                     /\ UNCHANGED crashed
               /\ UNCHANGED errno
    /\ NoSearch
    /\ UNCHANGED <<ret, vec, was, copy, dict, growthVars, str1, str2>>

\* the value interp_xsec returns once find_indices returned r and errno is en
InterpResults(r, en, e) ==
    IF r.found THEN {<<v, 1>> : v \in ReadXs(r.lower)}
    ELSE IF en = "ERANGE" THEN {InterpError}
    ELSE {Interpolate(XS1, XS2, E1, E2, e) :
            XS1 \in ReadXs(r.lower), XS2 \in ReadXs(r.upper),
            E1 \in ReadEnergy(r.lower), E2 \in ReadEnergy(r.upper)}

interp_xsec(e) ==
    /\ unit = "xsec" /\ ~crashed
    /\ IF xsec.len = 0
       THEN /\ Call("interp_xsec", <<e>>, InterpError, "EINVAL")
            /\ NoSearch
       ELSE LET r == find_indices(xsec.energy, xsec.len, e)
                en == IF r.erange THEN "ERANGE" ELSE errno
            IN  /\ lower' = r.lower
                /\ upper' = r.upper
                /\ \/ \E v \in InterpResults(r, en, e) :
                         Call("interp_xsec", <<e>>, v, en)
                   \/ /\ "xs" \notin live
                      /\ r.found \/ en # "ERANGE"
                      /\ Crash("interp_xsec", <<e>>)
    /\ UNCHANGED <<unit, xsec, live, vec, was, copy, dict, growthVars, str1, str2>>

\* interp_xsec(xsec, NAN).  No comparison with NAN is true, so neither range
\* test of find_indices fires and every turn of its loop takes the else
\* branch high = mid - 1; at mid = 0 high wraps around to SIZE_MAX and
\* array[mid] is read far outside the array.  The process dies on that read,
\* or the reads go on and the loop, whose high wraps again each time mid
\* comes back to 0, never ends (unit "hung").  What the call does depends
\* on the table only: it is made on every table as construction or a push
\* leaves it.
interp_xsec_nan ==
    /\ unit = "xsec" /\ ~crashed
    /\ op \in {"init", "push_xsec"}
    /\ IF xsec.len = 0
       THEN /\ Call("interp_xsec_nan", <<>>, InterpError, "EINVAL")
            /\ UNCHANGED unit
       ELSE LET r == find_indices(xsec.energy, xsec.len, NaN)
            IN  IF r.oob
                THEN \/ Crash("interp_xsec_nan", <<>>) /\ UNCHANGED unit
                     \/ /\ unit' = "hung"
                        /\ op' = "interp_xsec_nan"
                        /\ arg' = <<>>
                        /\ UNCHANGED <<ret, errno, crashed>>
                ELSE \* not-a-number goes through the arithmetic
                     /\ Call("interp_xsec_nan", <<>>, <<NaN, 1>>, errno)
                     /\ UNCHANGED unit
    /\ NoSearch
    /\ UNCHANGED <<xsec, live, vec, was, copy, dict, growthVars, str1, str2>>

NextXsec ==
    \/ \E xsv \in XsValues, e \in EnergyValues, r \in ReallocOutcomes :
          push_xsec(xsv, e, r)
    \/ \E xsv \in XsValues, e \in EnergyValues : push_xsec_freed(xsv, e)
    \/ \E index \in 0 .. MaxLen : get_xsec(index)
    \/ \E index \in 0 .. MaxLen : get_xsec_energy(index)
    \/ \E index \in 0 .. MaxLen : get_xsec_data(index)
    \/ \E e \in Queries : interp_xsec(e)
    \/ \E handle \in XsecHandles : free_xsec(handle)
    \/ interp_xsec_nan

----------------------------------------------------------------------------
(* vector_t *)

init_vector(len) == [data |-> <<>>, len |-> 0, alloc |-> len]

\* no copy_vector result: the call was not made, or it returned NULL
NoCopy ==
    [made |-> FALSE, own |-> TRUE, used |-> FALSE,
     v |-> [data |-> <<>>, len |-> 0, alloc |-> 0]]

\* what a vector shows after a call left the block `data` behind: unchanged
\* when the vector has a block of its own (`own`), the cells of the other
\* vector's block when both point to the same one
Seen(v, own, data) ==
    IF own THEN v
    ELSE [v EXCEPT !.data = [i \in 1 .. v.len |->
                               IF i <= Len(data) THEN data[i] ELSE v.data[i]]]

\* what realloc does in a growing push: it succeeds or fails
VecReallocOutcomes == {"ok", "fail"}

\* a plausible slip: the new capacity is not stored
GrownNotStored(v) == v

\* the growth check shared by the three insertions: the vector after a
\* successful realloc, or the vector as it is when none is needed
Grown(v) ==
    IF v.alloc <= v.len THEN [v EXCEPT !.alloc = NewAlloc(v.alloc)] ELSE v

\* push_back_vector: the vector, return value and errno it leaves
push_back_effect(v, dat, r, en) ==
    IF v.alloc <= v.len /\ r = "fail"
    THEN [vec |-> v, ret |-> FALSE, errno |-> "ENOMEM"]
    ELSE [vec |-> [Grown(v) EXCEPT !.data = Append(v.data, dat),
                                   !.len = v.len + 1],
          ret |-> TRUE, errno |-> en]

\* a plausible slip: the shift is left out, data[0] is overwritten
push_front_effect_no_shift(v, dat, r, en) ==
    IF v.alloc <= v.len /\ r = "fail"
    THEN [vec |-> v, ret |-> FALSE, errno |-> "ENOMEM"]
    ELSE [vec |-> [Grown(v) EXCEPT
                     !.data = IF v.len = 0 THEN <<dat>>
                              ELSE <<dat>> \o Tail(v.data) \o <<FLT_MIN>>,
                     !.len = v.len + 1],
          ret |-> TRUE, errno |-> en]

\* push_front_vector: memmove shifts data[0 .. len-1] to data[1 .. len]
push_front_effect(v, dat, r, en) ==
    IF v.alloc <= v.len /\ r = "fail"
    THEN [vec |-> v, ret |-> FALSE, errno |-> "ENOMEM"]
    ELSE [vec |-> [Grown(v) EXCEPT !.data = <<dat>> \o v.data,
                                   !.len = v.len + 1],
          ret |-> TRUE, errno |-> en]

\* a plausible slip: memmove is given one element too few, the last element
\* is not moved and the slot behind it keeps what realloc left there
insert_effect_short_shift(v, dat, index, r, en) ==
    IF index > v.len
    THEN [vec |-> v, ret |-> FALSE, errno |-> "ERANGE"]
    ELSE IF index = 0 THEN push_front_effect(v, dat, r, en)
    ELSE IF index = v.len THEN push_back_effect(v, dat, r, en)
    ELSE IF v.alloc <= v.len /\ r = "fail"
    THEN [vec |-> v, ret |-> FALSE, errno |-> "ENOMEM"]
    ELSE [vec |-> [Grown(v) EXCEPT
                     !.data = SubSeq(v.data, 1, index) \o <<dat>>
                                  \o SubSeq(v.data, index + 1, v.len - 1)
                                  \o <<FLT_MIN>>,
                     !.len = v.len + 1],
          ret |-> TRUE, errno |-> en]

\* insert_vector
insert_effect(v, dat, index, r, en) ==
    IF index > v.len
    THEN [vec |-> v, ret |-> FALSE, errno |-> "ERANGE"]
    ELSE IF index = 0 THEN push_front_effect(v, dat, r, en)
    ELSE IF index = v.len THEN push_back_effect(v, dat, r, en)
    ELSE IF v.alloc <= v.len /\ r = "fail"
    THEN [vec |-> v, ret |-> FALSE, errno |-> "ENOMEM"]
    ELSE [vec |-> [Grown(v) EXCEPT
                     !.data = SubSeq(v.data, 1, index) \o <<dat>>
                                  \o SubSeq(v.data, index + 1, v.len),
                     !.len = v.len + 1],
          ret |-> TRUE, errno |-> en]

\* once there is a copy the caller makes one more call, on either vector
CopyUsable == copy.made => ~copy.used

\* a call on the vector with effect e
VecCall(name, a, e) ==
    /\ CopyUsable
    /\ Call(name, a, e.ret, e.errno)
    /\ vec' = e.vec
    /\ was' = vec
    /\ copy' = IF copy.made
               THEN [copy EXCEPT !.used = TRUE,
                                 !.v = Seen(@, copy.own, e.vec.data)]
               ELSE copy
    /\ NoSearch
    /\ UNCHANGED <<unit, xsec, live, dict, growthVars, str1, str2>>

\* realloc is only called, and can only fail, when the vector is full
ReallocCalled(r) == r = "ok" \/ vec.alloc <= vec.len

push_back_vector(dat, r) ==
    /\ unit = "vector" /\ ~crashed /\ vec.len < MaxVecLen
    /\ ReallocCalled(r)
    /\ VecCall("push_back_vector", <<dat, r>>,
               push_back_effect(vec, dat, r, errno))

push_front_vector(dat, r) ==
    /\ unit = "vector" /\ ~crashed /\ vec.len < MaxVecLen
    /\ ReallocCalled(r)
    /\ VecCall("push_front_vector", <<dat, r>>,
               push_front_effect(vec, dat, r, errno))

insert_vector(dat, index, r) ==
    /\ unit = "vector" /\ ~crashed /\ vec.len < MaxVecLen
    /\ ReallocCalled(r) /\ (index > vec.len => r = "ok")
    /\ VecCall("insert_vector", <<dat, index, r>>,
               insert_effect(vec, dat, index, r, errno))

\* The steps of an insertion in program order, as events: the growth check
\* (if (vec->alloc <= vec->len), with the realloc behind it), the stores of
\* memmove ("shift") and the store of the new element ("store").  A store
\* carries the index written, the capacity of the block at that moment and
\* the value written.
GrowthCheck(v) ==
    [kind |-> "growth_check", index |-> 0, alloc |-> v.alloc, value |-> 0]

Written(kind, index, alloc, value) ==
    [kind |-> kind, index |-> index, alloc |-> alloc, value |-> value]

\* memmove(data + index + 1, data + index, (len - index) * sizeof(float)) on
\* a block of capacity alloc: slot index + k receives what slot index + k - 1
\* held
memmove_events(v, index, alloc) ==
    [k \in 1 .. v.len - index |->
       Written("shift", index + k, alloc, v.data[index + k])]

\* a plausible slip: the new element is stored in the block as it was before
\* the growth
push_back_events_old_block(v, dat, r) ==
    <<GrowthCheck(v)>>
      \o IF v.alloc <= v.len /\ r = "fail" THEN <<>>
         ELSE <<Written("store", v.len, v.alloc, dat)>>

\* push_back_vector
push_back_events(v, dat, r) ==
    <<GrowthCheck(v)>>
      \o IF v.alloc <= v.len /\ r = "fail" THEN <<>>
         ELSE <<Written("store", v.len, Grown(v).alloc, dat)>>

\* a plausible slip: the elements are shifted first, in the block as it is,
\* and the growth check follows
push_front_events_shift_first(v, dat, r) ==
    memmove_events(v, 0, v.alloc) \o <<GrowthCheck(v)>>
      \o IF v.alloc <= v.len /\ r = "fail" THEN <<>>
         ELSE <<Written("store", 0, Grown(v).alloc, dat)>>

\* push_front_vector
push_front_events(v, dat, r) ==
    <<GrowthCheck(v)>>
      \o IF v.alloc <= v.len /\ r = "fail" THEN <<>>
         ELSE memmove_events(v, 0, Grown(v).alloc)
                \o <<Written("store", 0, Grown(v).alloc, dat)>>

\* insert_vector
insert_events(v, dat, index, r) ==
    IF index > v.len THEN <<>>
    ELSE IF index = 0 THEN push_front_events(v, dat, r)
    ELSE IF index = v.len THEN push_back_events(v, dat, r)
    ELSE <<GrowthCheck(v)>>
           \o IF v.alloc <= v.len /\ r = "fail" THEN <<>>
              ELSE memmove_events(v, index, Grown(v).alloc)
                     \o <<Written("store", index, Grown(v).alloc, dat)>>

\* the three insertions of a vector_t
VecInsertionCalls ==
    {"push_back_vector", "push_front_vector", "insert_vector"}

\* the events of the insertion `name` called on v with the arguments a
VecEvents(name, v, a) ==
    CASE name = "push_back_vector" -> push_back_events(v, a[1], a[2])
      [] name = "push_front_vector" -> push_front_events(v, a[1], a[2])
      [] name = "insert_vector" -> insert_events(v, a[1], a[2], a[3])

\* push_xsec on a table whose handles are live: the growth check and the
\* two stores xs[len] and energy[len]
push_xsec_events(x, xsv, e, r) ==
    <<GrowthCheck(x)>>
      \o IF x.alloc <= x.len /\ r # "ok" THEN <<>>
         ELSE LET new_alloc == IF x.alloc <= x.len THEN NewAlloc(x.alloc)
                               ELSE x.alloc
              IN  <<Written("store", x.len, new_alloc, xsv),
                    Written("store", x.len, new_alloc, e)>>

\* pop_back_vector
pop_back_effect(v, en) ==
    IF v.len = 0
    THEN [vec |-> v, ret |-> FLT_MIN, errno |-> "EINVAL"]
    ELSE [vec |-> [v EXCEPT !.data = SubSeq(v.data, 1, v.len - 1),
                            !.len = v.len - 1],
          ret |-> v.data[v.len], errno |-> en]

\* a plausible slip: the empty vector is reported as an index out of range
pop_front_effect_erange(v, en) ==
    IF v.len = 0
    THEN [vec |-> v, ret |-> FLT_MIN, errno |-> "ERANGE"]
    ELSE [vec |-> [v EXCEPT !.data = Tail(v.data), !.len = v.len - 1],
          ret |-> v.data[1], errno |-> en]

\* pop_front_vector: memmove shifts data[1 .. len-1] to data[0 .. len-2]
pop_front_effect(v, en) ==
    IF v.len = 0
    THEN [vec |-> v, ret |-> FLT_MIN, errno |-> "EINVAL"]
    ELSE [vec |-> [v EXCEPT !.data = Tail(v.data), !.len = v.len - 1],
          ret |-> v.data[1], errno |-> en]

\* a plausible slip: the element is read after the gap was closed
pop_any_effect_late_read(v, index, en) ==
    IF v.len = 0
    THEN [vec |-> v, ret |-> FLT_MIN, errno |-> "EINVAL"]
    ELSE IF index >= v.len
    THEN [vec |-> v, ret |-> FLT_MIN, errno |-> "ERANGE"]
    ELSE IF index = 0 THEN pop_front_effect(v, en)
    ELSE IF index = v.len - 1 THEN pop_back_effect(v, en)
    ELSE [vec |-> [v EXCEPT
                     !.data = SubSeq(v.data, 1, index)
                                  \o SubSeq(v.data, index + 2, v.len),
                     !.len = v.len - 1],
          ret |-> v.data[index + 2], errno |-> en]

\* pop_any_vector
pop_any_effect(v, index, en) ==
    IF v.len = 0
    THEN [vec |-> v, ret |-> FLT_MIN, errno |-> "EINVAL"]
    ELSE IF index >= v.len
    THEN [vec |-> v, ret |-> FLT_MIN, errno |-> "ERANGE"]
    ELSE IF index = 0 THEN pop_front_effect(v, en)
    ELSE IF index = v.len - 1 THEN pop_back_effect(v, en)
    ELSE [vec |-> [v EXCEPT
                     !.data = SubSeq(v.data, 1, index)
                                  \o SubSeq(v.data, index + 2, v.len),
                     !.len = v.len - 1],
          ret |-> v.data[index + 1], errno |-> en]

pop_back_vector ==
    /\ unit = "vector" /\ ~crashed
    /\ VecCall("pop_back_vector", <<>>, pop_back_effect(vec, errno))

pop_front_vector ==
    /\ unit = "vector" /\ ~crashed
    /\ VecCall("pop_front_vector", <<>>, pop_front_effect(vec, errno))

pop_any_vector(index) ==
    /\ unit = "vector" /\ ~crashed
    /\ VecCall("pop_any_vector", <<index>>, pop_any_effect(vec, index, errno))

get_vector(index) ==
    /\ unit = "vector" /\ ~crashed
    /\ VecCall("get_vector", <<index>>,
               IF index >= vec.len
               THEN [vec |-> vec, ret |-> FLT_MAX, errno |-> "EINVAL"]
               ELSE [vec |-> vec, ret |-> vec.data[index + 1], errno |-> errno])

\* a plausible slip: the copy takes over the pointer to the source's block
copy_vector_shallow(v, malloc_ok, r) ==
    IF ~malloc_ok THEN NoCopy
    ELSE [made |-> TRUE, own |-> FALSE, used |-> FALSE, v |-> v]

\* the for loop of copy_vector, from index i on: push_back_vector of
\* get_vector(vec, i) into new_vec, its return value ignored
RECURSIVE CopyLoop(_, _, _, _)
CopyLoop(v, i, new_vec, r) ==
    IF ~(i < v.len) THEN new_vec
    ELSE CopyLoop(v, i + 1,
                  push_back_effect(new_vec, v.data[i + 1], r, "0").vec, r)

\* copy_vector; malloc_ok: init_vector could allocate the new vector
copy_vector_effect(v, malloc_ok, r) ==
    IF ~malloc_ok THEN NoCopy
    ELSE [made |-> TRUE, own |-> TRUE, used |-> FALSE,
          v |-> CopyLoop(v, 0, init_vector(v.alloc), r)]

\* a call of copy_vector on the vector
copy_vector(malloc_ok, r) ==
    /\ unit = "vector" /\ ~crashed /\ ~copy.made
    /\ r = "ok" \/ vec.alloc < vec.len
    /\ Call("copy_vector", <<malloc_ok>>, malloc_ok,
            IF malloc_ok THEN errno ELSE "ENOMEM")
    /\ copy' = copy_vector_effect(vec, malloc_ok, r)
    /\ was' = vec
    /\ NoSearch
    /\ UNCHANGED <<unit, vec, xsec, live, dict, growthVars, str1, str2>>

\* the calls that change a vector
VecMutators ==
    {"push_back_vector", "push_front_vector", "insert_vector",
     "pop_back_vector", "pop_front_vector", "pop_any_vector"}

\* the effect of the call `name` on the vector v
VecEffect(name, v, dat, index, r, en) ==
    CASE name = "push_back_vector" -> push_back_effect(v, dat, r, en)
      [] name = "push_front_vector" -> push_front_effect(v, dat, r, en)
      [] name = "insert_vector" -> insert_effect(v, dat, index, r, en)
      [] name = "pop_back_vector" -> pop_back_effect(v, en)
      [] name = "pop_front_vector" -> pop_front_effect(v, en)
      [] name = "pop_any_vector" -> pop_any_effect(v, index, en)

\* one of the calls that change a vector, made on the copy
on_copy(name, dat, index, r) ==
    /\ unit = "vector" /\ ~crashed /\ copy.made /\ CopyUsable
    /\ copy.v.len < MaxVecLen
    /\ r = "ok" \/ copy.v.alloc <= copy.v.len
    /\ LET e == VecEffect(name, copy.v, dat, index, r, errno)
       IN  /\ Call("on_copy", <<name, dat, index, r>>, e.ret, e.errno)
           /\ copy' = [copy EXCEPT !.used = TRUE, !.v = e.vec]
           /\ vec' = Seen(vec, copy.own, e.vec.data)
    /\ was' = vec
    /\ NoSearch
    /\ UNCHANGED <<unit, xsec, live, dict, growthVars, str1, str2>>

NextVec ==
    \/ \E dat \in VecValues, r \in VecReallocOutcomes : push_back_vector(dat, r)
    \/ \E dat \in VecValues, r \in VecReallocOutcomes : push_front_vector(dat, r)
    \/ \E dat \in VecValues, index \in 0 .. MaxVecLen, r \in VecReallocOutcomes :
          insert_vector(dat, index, r)
    \/ pop_back_vector
    \/ pop_front_vector
    \/ \E index \in 0 .. MaxVecLen : pop_any_vector(index)
    \/ \E index \in 0 .. MaxVecLen : get_vector(index)
    \/ \E malloc_ok \in BOOLEAN, r \in VecReallocOutcomes :
          copy_vector(malloc_ok, r)
    \/ \E name \in VecMutators, dat \in VecValues, index \in 0 .. MaxVecLen,
          r \in VecReallocOutcomes : on_copy(name, dat, index, r)

----------------------------------------------------------------------------
(* dict_t *)

\* hash_function: hash = hash * 33 + c over the bytes of the key, from 5381
RECURSIVE hash_loop(_, _)
hash_loop(key, hash) ==
    IF key = <<>> THEN hash
    ELSE hash_loop(Tail(key), ((hash * 32) + hash) + Head(key))

hash_function(key) == hash_loop(key, 5381)

\* dict->keyValues[index].next: the chain of bucket `index`, first node first
Chain(d, index) == d.keyValues[index + 1]

\* init_dict
init_dict ==
    [keyValues |-> [i \in 1 .. hashSize |-> <<>>],
     hash_size |-> 0, len |-> 0, alloc |-> hashSize]

\* a plausible slip: a node replaces the chain of its new bucket
RECURSIVE RehashChainOverwrite(_, _, _)
RehashChainOverwrite(chain, new_table, new_size) ==
    IF chain = <<>> THEN new_table
    ELSE LET current == Head(chain)
             new_index == hash_function(current.key) % new_size
         IN  RehashChainOverwrite(Tail(chain),
                                  [new_table EXCEPT ![new_index + 1] = <<current>>],
                                  new_size)

\* the inner while loop of resize_dict: every node of one old chain, in chain
\* order, is put at the front of the chain of its new bucket
RECURSIVE RehashChain(_, _, _)
RehashChain(chain, new_table, new_size) ==
    IF chain = <<>> THEN new_table
    ELSE LET current == Head(chain)
             new_index == hash_function(current.key) % new_size
         IN  RehashChain(Tail(chain),
                         [new_table EXCEPT ![new_index + 1] = <<current>> \o @],
                         new_size)

\* the outer for loop of resize_dict, from old bucket i on
RECURSIVE RehashFrom(_, _, _, _)
RehashFrom(d, i, new_table, new_size) ==
    IF ~(i < d.alloc) THEN new_table
    ELSE RehashFrom(d, i + 1, RehashChain(Chain(d, i), new_table, new_size),
                    new_size)

\* resize_dict; malloc_ok: the new bucket array could be allocated
resize_dict(d, new_size, malloc_ok) ==
    IF ~malloc_ok THEN d
    ELSE [d EXCEPT
            !.keyValues = RehashFrom(d, 0, [i \in 1 .. new_size |-> <<>>], new_size),
            !.alloc = new_size]

\* hash_size >= alloc * LOAD_FACTOR_THRESHOLD, with LOAD_FACTOR_THRESHOLD = 0.7
\* (alloc is 3 * 2^k, so alloc * 0.7 is never within rounding of an integer)
LoadFactorReached(d) == d.hash_size * 10 >= d.alloc * 7

\* the capacity insert_dict asks resize_dict for
DictNewAlloc(alloc) ==
    IF alloc < XSEC_THRESHOLD THEN alloc * 2 ELSE alloc + XSEC_FIXED_AMOUNT

\* a plausible slip: only the first node of the chain is compared
FindInChainFirstOnly(chain, key) ==
    IF chain # <<>> /\ chain[1].key = key THEN 1 ELSE 0

\* the chain scan of insert_dict, pop_dict, get_dict_value and update_dict:
\* the position of the first node whose key equals `key`, 0 if there is none
FindInChain(chain, key) ==
    IF \E n \in 1 .. Len(chain) : chain[n].key = key
    THEN CHOOSE n \in 1 .. Len(chain) :
             /\ chain[n].key = key
             /\ \A m \in 1 .. n - 1 : chain[m].key # key
    ELSE 0

\* get_dict_value
get_dict_value(d, key) ==
    LET index == hash_function(key) % d.alloc
        n == FindInChain(Chain(d, index), key)
    IN  IF n # 0 THEN Chain(d, index)[n].value ELSE FLT_MAX

\* a plausible slip: the duplicate check looks at the first node only
KeyExistsFirstOnly(d, key) ==
    LET chain == Chain(d, hash_function(key) % d.alloc)
    IN  chain # <<>> /\ chain[1].key = key

\* the duplicate check of insert_dict
KeyExists(d, key) ==
    FindInChain(Chain(d, hash_function(key) % d.alloc), key) # 0

\* the first step of insert_dict: the resize when the load factor is reached
Resized(d, malloc_ok) ==
    IF LoadFactorReached(d)
    THEN resize_dict(d, DictNewAlloc(d.alloc), malloc_ok)
    ELSE d

\* a plausible slip: the bucket is computed from the initial capacity
LinkedInitialBucket(d, key, value) ==
    LET index == hash_function(key) % hashSize
    IN  [d EXCEPT !.keyValues[index + 1] = <<[key |-> key, value |-> value]>> \o @,
                  !.hash_size = @ + 1,
                  !.len = @ + 1]

\* the last step of insert_dict: the new node goes to the front of its chain
\* and both counters are incremented
Linked(d, key, value) ==
    LET index == hash_function(key) % d.alloc
    IN  [d EXCEPT !.keyValues[index + 1] = <<[key |-> key, value |-> value]>> \o @,
                  !.hash_size = @ + 1,
                  !.len = @ + 1]

\* what malloc does for the key copy and the node of insert_dict
NodeOutcomes == {"ok", "key_fail", "node_fail"}

DictCall(name, a, r, e, d) ==
    /\ Call(name, a, r, e)
    /\ dict' = d
    /\ NoSearch
    /\ UNCHANGED <<unit, xsec, live, vec, was, copy, growthVars, str1, str2>>

\* insert_dict.  When malloc fails for the key copy or the node, the code
\* evaluates current->key with current == NULL: the process dies, or (a build
\* that drops the invalid read) the call returns false.
insert_dict(key, value, resize_ok, m) ==
    /\ unit = "dict" /\ ~crashed /\ dict.hash_size < MaxInserts
    /\ LoadFactorReached(dict) \/ resize_ok
    /\ LET d == Resized(dict, resize_ok)
           a == <<key, value, resize_ok>>
       IN  IF KeyExists(d, key)
           THEN /\ m = "ok"
                /\ DictCall("insert_dict", a, FALSE, "EINVAL", d)
           ELSE IF m = "ok"
           THEN DictCall("insert_dict", a, TRUE, errno, Linked(d, key, value))
           ELSE \/ /\ Crash("insert_dict", a)
                   /\ dict' = d
                   /\ NoSearch
                   /\ UNCHANGED <<unit, xsec, live, vec, was, copy, growthVars, str1, str2>>
                \/ DictCall("insert_dict", a, FALSE,
                            IF m = "key_fail" THEN "ENOMEM" ELSE errno, d)

\* a plausible slip: the nodes behind the removed one go with it
UnlinkedWithRest(chain, n) == SubSeq(chain, 1, n - 1)

\* prev->next = current->next in pop_dict: the chain without its n-th node
Unlinked(chain, n) ==
    SubSeq(chain, 1, n - 1) \o SubSeq(chain, n + 1, Len(chain))

\* pop_dict
pop_dict(key) ==
    /\ unit = "dict" /\ ~crashed
    /\ LET index == hash_function(key) % dict.alloc
           chain == Chain(dict, index)
           n == FindInChain(chain, key)
       IN  IF n # 0
           THEN DictCall("pop_dict", <<key>>, chain[n].value, errno,
                         [dict EXCEPT
                            !.keyValues[index + 1] = Unlinked(chain, n),
                            !.len = @ - 1])
           ELSE DictCall("pop_dict", <<key>>, FLT_MAX, errno, dict)

\* a call of get_dict_value
get_dict(key) ==
    /\ unit = "dict" /\ ~crashed
    /\ DictCall("get_dict_value", <<key>>, get_dict_value(dict, key), errno, dict)

\* a plausible slip: the value is stored in the first node of the chain
UpdatedAtHead(d, index, n, value) ==
    [d EXCEPT !.keyValues[index + 1][1].value = value]

\* current->value = value in update_dict, current being the n-th node of
\* the chain of bucket `index`
Updated(d, index, n, value) ==
    [d EXCEPT !.keyValues[index + 1][n].value = value]

\* update_dict
update_dict(key, value) ==
    /\ unit = "dict" /\ ~crashed
    /\ LET index == hash_function(key) % dict.alloc
           n == FindInChain(Chain(dict, index), key)
       IN  IF n # 0
           THEN DictCall("update_dict", <<key, value>>, TRUE, errno,
                         Updated(dict, index, n, value))
           ELSE DictCall("update_dict", <<key, value>>, FALSE, errno, dict)

NextDict ==
    \/ \E key \in Keys, value \in DictValues, resize_ok \in BOOLEAN,
          m \in NodeOutcomes : insert_dict(key, value, resize_ok, m)
    \/ \E key \in Keys : pop_dict(key)
    \/ \E key \in Keys : get_dict(key)
    \/ \E key \in Keys, value \in DictValues : update_dict(key, value)

----------------------------------------------------------------------------
(* string_t *)

NoString == [str |-> <<>>, len |-> 0, alloc |-> 0]

\* a C string literal: its characters and the terminating NUL
Literal(text) == text \o <<0>>

\* the char array holds a NUL
Terminated(a) == \E i \in 1 .. Len(a) : a[i] = 0

\* strlen: the number of bytes before the first NUL
RECURSIVE strlen_from(_, _)
strlen_from(a, i) == IF a[i] = 0 THEN i - 1 ELSE strlen_from(a, i + 1)

strlen(a) == strlen_from(a, 1)

\* malloc(n): a block of n bytes holding whatever was there (g)
malloc(n, g) == [i \in 1 .. n |-> g]

\* a successful realloc(a, n): the old bytes that fit, then whatever was
\* there (g)
realloc(a, n, g) == [i \in 1 .. n |-> IF i <= Len(a) THEN a[i] ELSE g]

\* a plausible slip: the characters are copied without the terminating NUL
strcpy_without_nul(dst, src) ==
    [i \in 1 .. Len(dst) |-> IF i <= strlen(src) THEN src[i] ELSE dst[i]]

\* strcpy(dst, src): the characters of src and its NUL, to the front of dst
strcpy(dst, src) ==
    [i \in 1 .. Len(dst) |-> IF i <= strlen(src) + 1 THEN src[i] ELSE dst[i]]

\* strcat(dst, src): the characters of src and its NUL, from dst's NUL on
strcat(dst, src) ==
    LET n == strlen(dst)
    IN  [i \in 1 .. Len(dst) |->
           IF n < i /\ i <= n + strlen(src) + 1 THEN src[i - n] ELSE dst[i]]

\* strcat stays inside the block of dst
StrcatFits(dst, src) ==
    /\ Terminated(dst) /\ Terminated(src)
    /\ strlen(dst) + strlen(src) + 1 <= Len(dst)

\* init_string, both allocations succeeding
init_string(str, g) ==
    LET len == strlen(str)
    IN  [str |-> strcpy(malloc(len + 1, g), str), len |-> len,
         alloc |-> len + 1]

\* get_string
get_string(b) == b.str

\* what realloc does in a call that grows a string
StringReallocOutcomes == {"ok", "fail"}

\* a plausible slip: a growing concatenation reserves twice
\* the needed size
RegrownDoubled(b, new_len, g) ==
    IF new_len + 1 > b.alloc
    THEN [b EXCEPT !.str = realloc(@, 2 * (new_len + 1), g),
                   !.alloc = 2 * (new_len + 1)]
    ELSE b

\* the if (new_len + 1 > str1->alloc) block of the two concat functions,
\* realloc succeeding
Regrown(b, new_len, g) ==
    IF new_len + 1 > b.alloc
    THEN [b EXCEPT !.str = realloc(@, new_len + 1, g), !.alloc = new_len + 1]
    ELSE b

\* the common body of string_string_concat and string_lit_concat: src is
\* the char array appended and src_len the length the function takes for it
concat_effect(b, src, src_len, r, g, en) ==
    LET new_len == b.len + src_len
        grown == Regrown(b, new_len, g)
    IN  IF new_len + 1 > b.alloc /\ r = "fail"
        THEN [s |-> b, ret |-> FALSE, errno |-> "ENOMEM", crash |-> FALSE]
        ELSE IF ~StrcatFits(grown.str, src)
        THEN \* strcat reads or writes outside the block
             [s |-> b, ret |-> FALSE, errno |-> en, crash |-> TRUE]
        ELSE [s |-> [grown EXCEPT !.str = strcat(@, src), !.len = new_len],
              ret |-> TRUE, errno |-> en, crash |-> FALSE]

\* string_lit_concat(b, literal)
string_lit_concat_effect(b, literal, r, g, en) ==
    concat_effect(b, literal, strlen(literal), r, g, en)

\* string_string_concat(b, other)
string_string_concat_effect(b, other, r, g, en) ==
    concat_effect(b, other.str, other.len, r, g, en)

\* a plausible slip: an equal capacity is accepted and reallocated
reserve_string_effect_equal_ok(b, len, r, g, en) ==
    IF len < b.alloc
    THEN [s |-> b, ret |-> FALSE, errno |-> "EINVAL", crash |-> FALSE]
    ELSE IF r = "fail"
    THEN [s |-> b, ret |-> FALSE, errno |-> "ENOMEM", crash |-> FALSE]
    ELSE [s |-> [b EXCEPT !.str = realloc(@, len, g), !.alloc = len],
          ret |-> TRUE, errno |-> en, crash |-> FALSE]

\* reserve_string(b, len)
reserve_string_effect(b, len, r, g, en) ==
    IF len <= b.alloc
    THEN [s |-> b, ret |-> FALSE, errno |-> "EINVAL", crash |-> FALSE]
    ELSE IF r = "fail"
    THEN [s |-> b, ret |-> FALSE, errno |-> "ENOMEM", crash |-> FALSE]
    ELSE [s |-> [b EXCEPT !.str = realloc(@, len, g), !.alloc = len],
          ret |-> TRUE, errno |-> en, crash |-> FALSE]

\* the int that a size_t value converts to
SizeToInt(x) == IF x >= SizeMod \div 2 THEN x - SizeMod ELSE x

\* a plausible slip: the bytes are subtracted as signed chars
SignedByteDifference(x, y) ==
    (IF x >= 128 THEN x - 256 ELSE x) - (IF y >= 128 THEN y - 256 ELSE y)

\* (unsigned char)x - (unsigned char)y
ByteDifference(x, y) == x - y

\* the for loop of the two compare functions from index i on, and the
\* return behind it
RECURSIVE compare_loop(_, _, _, _, _, _)
compare_loop(a, a_len, b, string_len, min_len, i) ==
    IF ~(i < min_len) THEN SizeToInt(SizeSub(a_len, string_len))
    ELSE IF a[i + 1] # b[i + 1] THEN ByteDifference(a[i + 1], b[i + 1])
    ELSE compare_loop(a, a_len, b, string_len, min_len, i + 1)

\* compare_strings_lit(b, string)
compare_strings_lit_result(b, string) ==
    LET string_len == strlen(string)
        min_len == IF b.len < string_len THEN b.len ELSE string_len
    IN  compare_loop(b.str, b.len, string, string_len, min_len, 0)

\* compare_strings_string(b, two)
compare_strings_string_result(b, two) ==
    LET string_len == two.len
        min_len == IF b.len < string_len THEN b.len ELSE string_len
    IN  compare_loop(b.str, b.len, two.str, string_len, min_len, 0)

NoStr2 == [made |-> FALSE, own |-> TRUE, used |-> FALSE, b |-> NoString]

\* what a string_t sharing its block with another one (own = FALSE) holds
\* after the bytes a were written through the other one
SeenStr(b, own, a) ==
    IF own THEN b
    ELSE [b EXCEPT !.str = [i \in 1 .. Len(@) |->
                              IF i <= Len(a) THEN a[i] ELSE @[i]]]

\* a plausible slip: the copy takes over the pointer to the source's block
copy_string_shallow(b, malloc_ok, r, g, en) ==
    [new |-> [made |-> TRUE, own |-> FALSE, used |-> FALSE, b |-> b],
     errno |-> en, crash |-> FALSE]

\* copy_string(b); malloc_ok: init_string could allocate, r: the outcome
\* of the realloc in reserve_string
copy_string_effect(b, malloc_ok, r, g, en) ==
    IF ~Terminated(get_string(b)) \/ ~malloc_ok
    THEN \* strlen leaves the block, or new_str is NULL and new_str->alloc
         \* is read through it
         [new |-> NoStr2, errno |-> en, crash |-> TRUE]
    ELSE LET new_str == init_string(get_string(b), g)
             e == reserve_string_effect(new_str, b.alloc, r, g, en)
         IN  IF new_str.alloc < b.alloc
             THEN [new |-> [made |-> TRUE, own |-> TRUE, used |-> FALSE,
                            b |-> e.s],
                   errno |-> e.errno, crash |-> FALSE]
             ELSE [new |-> [made |-> TRUE, own |-> TRUE, used |-> FALSE,
                            b |-> new_str],
                   errno |-> en, crash |-> FALSE]

\* once there is a second string the caller makes one more call
Str2Usable == str2.made => ~str2.used

\* a call on the string with effect e
StrCall(name, a, e) ==
    /\ unit = "string" /\ ~crashed /\ Str2Usable
    /\ IF e.crash
       THEN Crash(name, a) /\ UNCHANGED <<str1, str2>>
       ELSE /\ Call(name, a, e.ret, e.errno)
            /\ str1' = e.s
            /\ str2' = IF str2.made
                       THEN [str2 EXCEPT !.used = TRUE,
                                         !.b = SeenStr(@, str2.own, e.s.str)]
                       ELSE str2
    /\ NoSearch
    /\ UNCHANGED <<unit, xsec, live, vec, was, copy, dict, growthVars>>

\* string_lit_concat(str1, literal)
string_lit_concat(text, r, g) ==
    /\ str1.len + Len(text) + 1 <= MaxStrAlloc
    /\ r = "ok" \/ str1.len + Len(text) + 1 > str1.alloc
    /\ StrCall("string_lit_concat", <<text, r>>,
               string_lit_concat_effect(str1, Literal(text), r, g, errno))

\* string_string_concat(str1, str2)
string_string_concat(r, g) ==
    /\ str2.made
    /\ str1.len + str2.b.len + 1 <= MaxStrAlloc
    /\ r = "ok" \/ str1.len + str2.b.len + 1 > str1.alloc
    /\ StrCall("string_string_concat", <<r>>,
               string_string_concat_effect(str1, str2.b, r, g, errno))

\* reserve_string(str1, len)
reserve_string(len, r, g) ==
    /\ r = "ok" \/ len > str1.alloc
    /\ StrCall("reserve_string", <<len, r>>,
               reserve_string_effect(str1, len, r, g, errno))

\* compare_strings_lit(str1, literal)
compare_strings_lit(text) ==
    StrCall("compare_strings_lit", <<text>>,
            [s |-> str1, ret |-> compare_strings_lit_result(str1, Literal(text)),
             errno |-> errno, crash |-> FALSE])

\* compare_strings_string(str1, str2)
compare_strings_string ==
    /\ str2.made
    /\ StrCall("compare_strings_string", <<>>,
               [s |-> str1, ret |-> compare_strings_string_result(str1, str2.b),
                errno |-> errno, crash |-> FALSE])

\* a second string made by init_string(literal)
init_str2(text, g) ==
    /\ unit = "string" /\ ~crashed /\ ~str2.made
    /\ Call("init_string", <<text>>, TRUE, errno)
    /\ str2' = [made |-> TRUE, own |-> TRUE, used |-> FALSE,
                b |-> init_string(Literal(text), g)]
    /\ NoSearch
    /\ UNCHANGED <<unit, str1, xsec, live, vec, was, copy, dict, growthVars>>

\* a second string made by copy_string(str1)
copy_string(malloc_ok, r, g) ==
    /\ unit = "string" /\ ~crashed /\ ~str2.made
    /\ r = "ok" \/ (malloc_ok /\ str1.len + 1 < str1.alloc)
    /\ LET e == copy_string_effect(str1, malloc_ok, r, g, errno)
       IN  IF e.crash
           THEN Crash("copy_string", <<malloc_ok, r>>) /\ UNCHANGED str2
           ELSE /\ Call("copy_string", <<malloc_ok, r>>, TRUE, e.errno)
                /\ str2' = e.new
    /\ NoSearch
    /\ UNCHANGED <<unit, str1, xsec, live, vec, was, copy, dict, growthVars>>

\* string_lit_concat(str2, literal)
str2_lit_concat(text, r, g) ==
    /\ unit = "string" /\ ~crashed /\ str2.made /\ Str2Usable
    /\ str2.b.len + Len(text) + 1 <= MaxStrAlloc
    /\ r = "ok" \/ str2.b.len + Len(text) + 1 > str2.b.alloc
    /\ LET e == string_lit_concat_effect(str2.b, Literal(text), r, g, errno)
       IN  IF e.crash
           THEN Crash("str2_lit_concat", <<text, r>>) /\ UNCHANGED <<str1, str2>>
           ELSE /\ Call("str2_lit_concat", <<text, r>>, e.ret, e.errno)
                /\ str2' = [str2 EXCEPT !.used = TRUE, !.b = e.s]
                /\ str1' = SeenStr(str1, str2.own, e.s.str)
    /\ NoSearch
    /\ UNCHANGED <<unit, xsec, live, vec, was, copy, dict, growthVars>>

NextString ==
    \/ \E text \in Texts, r \in StringReallocOutcomes, g \in Garbage :
           string_lit_concat(text, r, g)
    \/ \E r \in StringReallocOutcomes, g \in Garbage : string_string_concat(r, g)
    \/ \E len \in 0 .. MaxStrAlloc, r \in StringReallocOutcomes, g \in Garbage :
           reserve_string(len, r, g)
    \/ \E text \in Texts : compare_strings_lit(text)
    \/ compare_strings_string
    \/ \E text \in Texts, g \in Garbage : init_str2(text, g)
    \/ \E malloc_ok \in BOOLEAN, r \in StringReallocOutcomes, g \in Garbage :
           copy_string(malloc_ok, r, g)
    \/ \E text \in Texts, r \in StringReallocOutcomes, g \in Garbage :
           str2_lit_concat(text, r, g)

----------------------------------------------------------------------------
(* The growth computation on its own, applied to capacities that no model  *)
(* of a container can fill                                                 *)

grow ==
    /\ unit = "growth" /\ op = "init"
    /\ Call("grow", <<galloc>>, TRUE, errno)
    /\ gnew' = [array |-> NewAlloc(galloc), dict |-> DictNewAlloc(galloc)]
    /\ NoSearch
    /\ UNCHANGED <<unit, galloc, xsec, live, vec, was, copy, dict, str1, str2>>

----------------------------------------------------------------------------
(* Construction *)

NoVector == [data |-> <<>>, len |-> 0, alloc |-> 0]
NoDict == [keyValues |-> <<>>, hash_size |-> 0, len |-> 0, alloc |-> 0]

InitCommon ==
    /\ errno = "0"
    /\ op = "init"
    /\ ret = TRUE
    /\ crashed = FALSE
    /\ lower = 0
    /\ upper = 0
    /\ gnew = [array |-> 0, dict |-> 0]
    /\ live = {"xs", "energy"}
    /\ copy = NoCopy
    /\ was = vec
    /\ str2 = NoStr2

InitXsec ==
    /\ unit = "xsec"
    /\ \E buffer_length \in 0 .. MaxInitCap :
           xsec = init_xsec(buffer_length) /\ arg = <<buffer_length>>
    /\ vec = NoVector
    /\ dict = NoDict
    /\ galloc = 0
    /\ str1 = NoString
    /\ InitCommon

InitVec ==
    /\ unit = "vector"
    /\ \E len \in 0 .. MaxVecInitCap : vec = init_vector(len) /\ arg = <<len>>
    /\ xsec = NoXsec
    /\ dict = NoDict
    /\ galloc = 0
    /\ str1 = NoString
    /\ InitCommon

InitGrowth ==
    /\ unit = "growth"
    /\ galloc \in GrowthInputs
    /\ arg = <<>>
    /\ xsec = NoXsec
    /\ vec = NoVector
    /\ dict = NoDict
    /\ str1 = NoString
    /\ InitCommon

InitDict ==
    /\ unit = "dict"
    /\ dict = init_dict
    /\ arg = <<>>
    /\ xsec = NoXsec
    /\ vec = NoVector
    /\ galloc = 0
    /\ str1 = NoString
    /\ InitCommon

InitString ==
    /\ unit = "string"
    /\ \E text \in Texts, g \in Garbage :
           str1 = init_string(Literal(text), g) /\ arg = <<text>>
    /\ xsec = NoXsec
    /\ vec = NoVector
    /\ dict = NoDict
    /\ galloc = 0
    /\ InitCommon

SpecXsec == InitXsec /\ [][NextXsec]_vars

SpecString == InitString /\ [][NextString]_vars

SpecDict == (InitDict \/ InitGrowth) /\ [][NextDict \/ grow]_vars

SpecVec == InitVec /\ [][NextVec]_vars

SpecArrays == (InitXsec \/ InitVec) /\ [][NextXsec \/ NextVec]_vars

SpecGrowth ==
    (InitXsec \/ InitVec \/ InitGrowth) /\ [][NextXsec \/ NextVec \/ grow]_vars

----------------------------------------------------------------------------
(* Claims about xsec_t *)

\* the table is valid: both handles refer to live storage
XsecValid == {"xs", "energy"} \subseteq live

\* keys in ascending order; strictly ascending keys are also pairwise distinct
Ascending(keys) ==
    \A i, j \in 1 .. Len(keys) : i < j => keys[i] <= keys[j]
StrictlyAscending(keys) ==
    \A i, j \in 1 .. Len(keys) : i < j => keys[i] < keys[j]

\* the last call was interp_xsec(e) and it returned
Interpolated(e) == op = "interp_xsec" /\ ~crashed /\ arg = <<e>>

\* e lies strictly inside the key range of the table and equals no key
InsideNoMatch(e) ==
    /\ xsec.len > 0
    /\ xsec.energy[1] < e
    /\ e < xsec.energy[xsec.len]
    /\ \A i \in 1 .. xsec.len : xsec.energy[i] # e

\* the last C index whose key is below e
LastBelow(e) ==
    CHOOSE i \in 0 .. xsec.len - 1 :
        /\ xsec.energy[i + 1] < e
        /\ \A j \in 0 .. xsec.len - 1 : xsec.energy[j + 1] < e => j <= i

\* C1: for ascending keys and an energy strictly inside the key range that
\* equals no key, interp_xsec ends its search with lower = the last index whose
\* key is below the energy and upper = lower + 1, and returns
\* xs[lower] + (xs[upper] - xs[lower]) * (e - E[lower]) / (E[upper] - E[lower]).
C1_InterpolatesBetweenNeighbours ==
    \A e \in Queries :
        (Interpolated(e) /\ XsecValid /\ Ascending(xsec.energy) /\ InsideNoMatch(e))
        => LET l == LastBelow(e)
           IN  /\ lower = l
               /\ upper = l + 1
               /\ ret = <<xsec.xs[l + 1] * (xsec.energy[l + 2] - xsec.energy[l + 1])
                            + (xsec.xs[l + 2] - xsec.xs[l + 1]) * (e - xsec.energy[l + 1]),
                          xsec.energy[l + 2] - xsec.energy[l + 1]>>

\* C2: whatever was called before, interp_xsec with an in-range energy that
\* equals no key of an ascending table does not return the -1.0 error value.
C2_ResultIndependentOfEarlierCalls ==
    \A e \in Queries :
        (Interpolated(e) /\ XsecValid /\ Ascending(xsec.energy) /\ InsideNoMatch(e))
        => ret # InterpError

\* C4: a push_xsec whose xs reallocation succeeded and whose energy
\* reallocation failed returns false and leaves both handles of the table
\* referring to live storage.
C4_FailedGrowthKeepsHandlesLive ==
    (op = "push_xsec" /\ ~crashed /\ arg[3] = "energy_fail")
    => (ret = FALSE /\ XsecValid)

\* e is below the first key or above the last key of a non-empty table
OutOfRange(e) ==
    /\ xsec.len > 0
    /\ e < xsec.energy[1] \/ e > xsec.energy[xsec.len]

\* C7: on every non-empty table, interp_xsec with an energy below keys[0] or
\* above keys[len-1] returns -1.0 with errno = ERANGE and leaves the table
\* unchanged.
C7_OutOfRangeFails ==
    [][\A e \in Queries :
          (op' = "interp_xsec" /\ arg' = <<e>> /\ OutOfRange(e))
          => /\ ~crashed'
             /\ ret' = InterpError
             /\ errno' = "ERANGE"
             /\ xsec' = xsec
             /\ live' = live]_vars

C7_Witness ==
    /\ op = "interp_xsec" /\ ~crashed
    /\ xsec.len = 1
    /\ arg[1] > xsec.energy[1]
    /\ ret = InterpError /\ errno = "ERANGE"

----------------------------------------------------------------------------
(* Claims about growth *)

\* the growth law as the specification words it, for a capacity c >= 1
GrowthLaw(c) ==
    IF c < 1048576 THEN 2 * c ELSE c + 1048576

\* an insertion into a container of length len and capacity alloc that
\* succeeded and left length len2 and capacity alloc2
InsertionFollowsLaw(len, alloc, len2, alloc2) ==
    /\ len2 = len + 1
    /\ len < alloc => alloc2 = alloc
    /\ (len = alloc /\ alloc >= 1) => alloc2 = GrowthLaw(alloc)
    /\ alloc2 >= len2

VecInsertions == {"push_back_vector", "push_front_vector", "insert_vector"}

\* C9: a successful push_xsec / push_back_vector / push_front_vector /
\* insert_vector leaves the capacity unchanged when length < capacity, and
\* with length = capacity = c >= 1 sets it to 2*c below the 1 MiB threshold
\* and to c + 1 MiB from it on; only a successful insertion adds an element,
\* and exactly one, so k successful pushes give size k and capacity >= k.
C9_GrowthLaw ==
    [][/\ (op' = "push_xsec" /\ ~crashed' /\ ret' = TRUE)
          => InsertionFollowsLaw(xsec.len, xsec.alloc, xsec'.len, xsec'.alloc)
       /\ xsec'.len > xsec.len
          => (op' = "push_xsec" /\ ~crashed' /\ ret' = TRUE)
       /\ (op' \in VecInsertions /\ ret' = TRUE)
          => InsertionFollowsLaw(vec.len, vec.alloc, vec'.len, vec'.alloc)
       /\ vec'.len > vec.len => (op' \in VecInsertions /\ ret' = TRUE)
       /\ (op' = "grow" /\ galloc >= 1) => gnew'.array = GrowthLaw(galloc)]_vars

\* the fifth element arrived in a vector created with capacity 4
C9_Witness ==
    /\ op \in VecInsertions /\ ret = TRUE
    /\ vec.len = 5
    /\ vec.alloc = 8

\* the growth computation ran on a capacity of 1 MiB elements
ThresholdGrowthReached ==
    /\ op = "grow"
    /\ galloc = 1048576
    /\ gnew.array = 2097152

----------------------------------------------------------------------------
(* Claims about dict_t *)

\* the keys for which get_dict_value succeeds
LiveKeys(d) == {k \in Keys : get_dict_value(d, k) # FLT_MAX}

\* the nodes of the whole table, by bucket and position in the chain
Nodes(d) ==
    UNION {{<<i, n>> : n \in 1 .. Len(d.keyValues[i])} : i \in 1 .. d.alloc}

\* every node sits in the bucket hash(key) mod capacity
WellPlaced(d) ==
    \A p \in Nodes(d) :
        hash_function(d.keyValues[p[1]][p[2]].key) % d.alloc = p[1] - 1

\* C3: dict_hash_size equals the number of keys for which get_dict_value
\* succeeds, after any sequence of insert, remove and update operations.
C3_HashSizeCountsLivePairs ==
    unit = "dict" => dict.hash_size = Cardinality(LiveKeys(dict))

\* C5: when an insert_dict changes the capacity, every key found by
\* get_dict_value before it is found afterwards with the same value, every
\* node sits in the bucket hash(key) mod the new capacity, and no node is
\* lost or duplicated.
C5_RehashPreservesLookups ==
    [][(op' = "insert_dict" /\ dict'.alloc # dict.alloc)
       => /\ \A k \in LiveKeys(dict) :
                get_dict_value(dict', k) = get_dict_value(dict, k)
          /\ WellPlaced(dict')
          /\ Cardinality(Nodes(dict')) =
                Cardinality(Nodes(dict))
                    + (IF ~crashed' /\ ret' = TRUE THEN 1 ELSE 0)]_vars

\* the capacity went from 3 to 6 with three keys stored, two of which share
\* a bucket of the new table
C5_Witness ==
    /\ op = "insert_dict" /\ ~crashed
    /\ dict.alloc = 6
    /\ LiveKeys(dict) = Keys
    /\ \E i \in 1 .. dict.alloc : Len(dict.keyValues[i]) = 2

\* C6: insert_dict of a key that is already stored returns false and
\* get_dict_value of the key still returns the value stored before the call.
C6_DuplicateInsertKeepsValue ==
    [][(op' = "insert_dict" /\ arg'[1] \in LiveKeys(dict))
       => /\ ~crashed'
          /\ ret' = FALSE
          /\ get_dict_value(dict', arg'[1]) = get_dict_value(dict, arg'[1])]_vars

\* a duplicate insert with another value was refused, behind another node
C6_Witness ==
    /\ op = "insert_dict" /\ ~crashed
    /\ errno = "EINVAL" /\ ret = FALSE
    /\ arg[1] \in LiveKeys(dict)
    /\ get_dict_value(dict, arg[1]) # arg[2]
    /\ \E i \in 1 .. dict.alloc :
          Len(dict.keyValues[i]) >= 2 /\ dict.keyValues[i][2].key = arg[1]

\* the capacity the specification asks for when the load factor is reached
DictGrowthLaw(c) ==
    IF c < 1048576 THEN 2 * c ELSE c + 1048576

\* C10: a fresh map has capacity 3; every insert_dict rehashes to the grown
\* capacity (doubled below the 1 MiB threshold, plus 1 MiB otherwise) if and
\* only if entryCount >= 0.7 * capacity, entryCount being the number of live
\* key/value pairs, and the capacity is unchanged in all other cases.
C10_RehashIffLoadFactor ==
    [][/\ (unit = "dict" /\ op = "init") => dict.alloc = 3
       /\ op' = "insert_dict"
          => dict'.alloc =
               (IF Cardinality(LiveKeys(dict)) * 10 >= dict.alloc * 7
                THEN DictGrowthLaw(dict.alloc) ELSE dict.alloc)
       /\ op' # "insert_dict" => dict'.alloc = dict.alloc
       /\ (op' = "grow" /\ galloc >= 1) => gnew'.dict = DictGrowthLaw(galloc)]_vars

\* what the code does instead: the trigger reads the hash_size counter, which
\* pop_dict never decrements, and a failed allocation of the new bucket array
\* leaves the capacity as it was
RehashDrivenByHashSize ==
    [][/\ (unit = "dict" /\ op = "init") => dict.alloc = 3
       /\ op' = "insert_dict"
          => dict'.alloc = (IF dict.hash_size * 10 >= dict.alloc * 7 /\ arg'[3]
                            THEN DictGrowthLaw(dict.alloc) ELSE dict.alloc)
       /\ op' # "insert_dict" => dict'.alloc = dict.alloc
       /\ (op' = "grow" /\ galloc >= 1) => gnew'.dict = DictGrowthLaw(galloc)]_vars

\* C11: pop_dict of a stored key returns the key's value, after which
\* get_dict_value of the key returns FLT_MAX and every other key keeps its
\* value; pop_dict of a key that is not stored returns FLT_MAX and leaves the
\* map (chains, counters, capacity) unchanged.
C11_PopRemovesOnlyTheKey ==
    [][op' = "pop_dict"
       => IF arg'[1] \in LiveKeys(dict)
          THEN /\ ret' = get_dict_value(dict, arg'[1])
               /\ get_dict_value(dict', arg'[1]) = FLT_MAX
               /\ \A k \in Keys \ {arg'[1]} :
                     get_dict_value(dict', k) = get_dict_value(dict, k)
          ELSE /\ ret' = FLT_MAX
               /\ dict' = dict]_vars

\* a key was removed from the front of a chain that still holds a node
C11_Witness ==
    /\ op = "pop_dict"
    /\ ret # FLT_MAX
    /\ get_dict_value(dict, arg[1]) = FLT_MAX
    /\ LiveKeys(dict) # {}
    /\ dict.len < dict.hash_size
    /\ \E k \in LiveKeys(dict) : hash_function(k) % dict.alloc
                                    = hash_function(arg[1]) % dict.alloc

\* C12: in every state of the dictionary no key occurs in more than one node
\* of the whole table, and every node sits in the bucket hash(key) mod
\* capacity.
C12_KeysUniqueAndWellPlaced ==
    unit = "dict"
    => /\ \A p, q \in Nodes(dict) :
             dict.keyValues[p[1]][p[2]].key = dict.keyValues[q[1]][q[2]].key
             => p = q
       /\ WellPlaced(dict)

\* all keys are stored in a table that was rehashed twice, after a removal,
\* a re-insertion and an update
C12_Witness ==
    /\ op = "update_dict" /\ ret = TRUE
    /\ dict.alloc = 12
    /\ dict.len < dict.hash_size
    /\ LiveKeys(dict) = Keys
    /\ Cardinality(Nodes(dict)) = Cardinality(Keys)

\* C13: insert_dict is not fatal: no call of it ends the process on a null
\* pointer, and a call that returns false leaves every stored key with its
\* value.
C13_InsertSurvivesAllocationFailure ==
    [][op' = "insert_dict"
       => /\ ~crashed'
          /\ ret' = FALSE
             => \A k \in LiveKeys(dict) :
                   get_dict_value(dict', k) = get_dict_value(dict, k)]_vars

----------------------------------------------------------------------------
(* Claims about the arrays *)


\* the calls that read a pair of the xsec_t
XsecReads == {"get_xsec", "get_xsec_energy", "get_xsec_data"}

\* C15: the pairs stay co-indexed in push order.  While no push has left a
\* handle dangling, a push_xsec that returns true appends its pair at index
\* len and leaves the pairs already stored where they were, also when it
\* reallocated the arrays, and for every i < len get_xsec(i),
\* get_xsec_energy(i) and get_xsec_data(i) return the i-th stored value, key
\* and pair; so after n pushes that all returned true, index i holds the
\* (i+1)-th pair pushed.
C15_PairsCoIndexedInPushOrder ==
    [][/\ (op' = "push_xsec" /\ live = {"xs", "energy"} /\ ~crashed'
           /\ ret' = TRUE)
          => /\ xsec'.len = xsec.len + 1
             /\ xsec'.xs = Append(xsec.xs, arg'[1])
             /\ xsec'.energy = Append(xsec.energy, arg'[2])
             /\ live' = live
       /\ (op' = "push_xsec" /\ live = {"xs", "energy"} /\ ~crashed'
           /\ ret' = FALSE)
          => xsec' = xsec
       /\ (op' \in XsecReads /\ live = {"xs", "energy"} /\ arg'[1] < xsec.len)
          => /\ ~crashed' /\ xsec' = xsec /\ live' = live
             /\ op' = "get_xsec" => ret' = xsec.xs[arg'[1] + 1]
             /\ op' = "get_xsec_energy" => ret' = xsec.energy[arg'[1] + 1]
             /\ op' = "get_xsec_data"
                => ret' = <<xsec.xs[arg'[1] + 1], xsec.energy[arg'[1] + 1]>>]_vars

\* the first pair is read back after three pushes that grew the arrays from
\* capacity 0 to 2 to 4, none of them having failed
C15_Witness ==
    /\ op = "get_xsec_data" /\ arg = <<0>>
    /\ live = {"xs", "energy"}
    /\ xsec.len = 3 /\ xsec.alloc = 4
    /\ xsec.xs[1] # xsec.xs[3]
    /\ xsec.energy[1] # xsec.energy[2]
    /\ ret = <<xsec.xs[1], xsec.energy[1]>>

\* C14: in every state of an xsec_t and of a vector_t, the copy made by
\* copy_vector included, len <= alloc, also after calls that failed.
C14_LenWithinAlloc ==
    /\ unit = "xsec" => xsec.len <= xsec.alloc
    /\ unit = "vector" => /\ vec.len <= vec.alloc
                          /\ copy.v.len <= copy.v.alloc

\* a push on a full copy failed for lack of memory
C14_Witness ==
    /\ op = "on_copy" /\ arg[1] = "push_front_vector"
    /\ ret = FALSE /\ errno = "ENOMEM"
    /\ copy.v.len = copy.v.alloc
    /\ copy.v.len >= 2
    /\ vec.len = vec.alloc

----------------------------------------------------------------------------
(* Claims about vector_t *)

\* the vector w is the vector v with x put at index i: the elements below i
\* stay, those from i on move up by one, the length grows by one
InsertedAt(v, w, x, i) ==
    /\ w.len = v.len + 1
    /\ Len(w.data) = w.len
    /\ w.data[i + 1] = x
    /\ \A j \in 0 .. v.len - 1 :
          IF j < i THEN w.data[j + 1] = v.data[j + 1]
          ELSE w.data[j + 2] = v.data[j + 1]

\* C16 as stated: insert_vector(x, i) with i <= len returns true with x at
\* index i, the elements below i unchanged, those from i on moved up by one
\* and len increased by one; with i > len it returns false and leaves len,
\* alloc and the elements unchanged.
C16_InsertAtShiftsTail ==
    [][op' = "insert_vector"
       => IF arg'[2] <= vec.len
          THEN ret' = TRUE /\ InsertedAt(vec, vec', arg'[1], arg'[2])
          ELSE ret' = FALSE /\ vec' = vec]_vars

\* C16 as amended: insert_vector(x, i) with i <= len returns true with the
\* effect above unless the vector is full and realloc fails; in that case
\* (errno ENOMEM) and with i > len (errno ERANGE) it returns false and leaves
\* len, alloc and the elements unchanged.
C16_InsertAtShiftsTailUnlessNoMemory ==
    [][op' = "insert_vector"
       => IF arg'[2] > vec.len
          THEN ret' = FALSE /\ errno' = "ERANGE" /\ vec' = vec
          ELSE IF vec.alloc <= vec.len /\ arg'[3] = "fail"
          THEN ret' = FALSE /\ errno' = "ENOMEM" /\ vec' = vec
          ELSE ret' = TRUE /\ InsertedAt(vec, vec', arg'[1], arg'[2])]_vars

\* an element was inserted inside a full vector of four, between elements of
\* another value, with two elements behind it
C16_Witness ==
    /\ op = "insert_vector" /\ ret = TRUE
    /\ arg[2] = 2
    /\ vec.len = 5 /\ vec.alloc = 8
    /\ vec.data[3] = arg[1]
    /\ vec.data[2] # arg[1]
    /\ vec.data[4] # arg[1]
    /\ vec.data[5] = arg[1]

\* C17 as stated: push_back_vector(x) followed by pop_back_vector returns x
\* and restores the length and the elements the vector had before the push;
\* push_front_vector(x) followed by pop_front_vector likewise.
C17_PushPopRoundTrip ==
    [][/\ (op = "push_back_vector" /\ op' = "pop_back_vector")
          => ret' = arg[1] /\ vec'.len = was.len /\ vec'.data = was.data
       /\ (op = "push_front_vector" /\ op' = "pop_front_vector")
          => ret' = arg[1] /\ vec'.len = was.len /\ vec'.data = was.data]_vars

\* C17 as amended: a push_back_vector(x) that returned true followed by
\* pop_back_vector returns x and restores the length and the elements the
\* vector had before the push, the capacity being the one the push left;
\* push_front_vector(x) and pop_front_vector likewise.  After a push that
\* returned false the vector is as before the push, and the pop removes one
\* of its own elements or fails on the empty vector.
C17_SuccessfulPushPopRoundTrip ==
    [][/\ (op = "push_back_vector" /\ op' = "pop_back_vector")
          => IF ret
             THEN /\ ret' = arg[1]
                  /\ vec'.len = was.len /\ vec'.data = was.data
                  /\ vec'.alloc = vec.alloc /\ vec.alloc >= was.alloc
             ELSE /\ vec = was
                  /\ vec'.len = IF was.len = 0 THEN 0 ELSE was.len - 1
       /\ (op = "push_front_vector" /\ op' = "pop_front_vector")
          => IF ret
             THEN /\ ret' = arg[1]
                  /\ vec'.len = was.len /\ vec'.data = was.data
                  /\ vec'.alloc = vec.alloc /\ vec.alloc >= was.alloc
             ELSE /\ vec = was
                  /\ vec'.len = IF was.len = 0 THEN 0 ELSE was.len - 1]_vars

\* pop_front_vector gave back the front element of a vector of five whose
\* capacity 8 stems from a push on a full vector of four, and left the four
\* elements behind it
C17_Witness ==
    /\ op = "pop_front_vector" /\ ret # FLT_MIN
    /\ was.len = 5 /\ was.alloc = 8
    /\ ret = was.data[1]
    /\ was.data[2] # ret
    /\ vec.len = 4 /\ vec.alloc = 8
    /\ vec.data = Tail(was.data)

\* the calls that remove the element at an index, and that index
PopAtCalls == {"pop_front_vector", "pop_any_vector"}
PopAtIndex(name, a) == IF name = "pop_front_vector" THEN 0 ELSE a[1]

\* C18: pop_any_vector(i) with i < len, pop_front_vector being i = 0, returns
\* the element at index i, moves every element behind i down by one, leaves
\* the elements below i, decreases len by one and leaves alloc unchanged.
C18_PopAtShiftsTail ==
    [][(op' \in PopAtCalls /\ PopAtIndex(op', arg') < vec.len)
       => LET i == PopAtIndex(op', arg')
          IN  /\ ret' = vec.data[i + 1]
              /\ vec'.len = vec.len - 1
              /\ Len(vec'.data) = vec'.len
              /\ vec'.alloc = vec.alloc
              /\ \A j \in 0 .. vec.len - 1 :
                    /\ j < i => vec'.data[j + 1] = vec.data[j + 1]
                    /\ j > i => vec'.data[j] = vec.data[j + 1]]_vars

\* the second of four elements was removed, the elements next to it having
\* another value
C18_Witness ==
    /\ op = "pop_any_vector" /\ arg = <<1>>
    /\ was.len = 4
    /\ ret = was.data[2]
    /\ was.data[1] # ret /\ was.data[3] # ret
    /\ vec.data = <<was.data[1], was.data[3], was.data[4]>>
    /\ vec.alloc = was.alloc

\* the calls that remove an element
PopCalls == {"pop_back_vector", "pop_front_vector", "pop_any_vector"}

\* C19: pop_back_vector, pop_front_vector and pop_any_vector on an empty
\* vector fail with errno EINVAL, pop_any_vector with index >= len on a
\* vector that is not empty fails with errno ERANGE; each failure returns
\* FLT_MIN and leaves len, alloc and the elements unchanged.
C19_PopFailureSignalling ==
    [][/\ (op' \in PopCalls /\ vec.len = 0)
          => ret' = FLT_MIN /\ errno' = "EINVAL" /\ vec' = vec
       /\ (op' = "pop_any_vector" /\ vec.len > 0 /\ arg'[1] >= vec.len)
          => ret' = FLT_MIN /\ errno' = "ERANGE" /\ vec' = vec]_vars

\* pop_any_vector was refused for an index behind the last element
C19_Witness ==
    /\ op = "pop_any_vector"
    /\ vec.len > 0 /\ arg[1] = vec.len
    /\ ret = FLT_MIN /\ errno = "ERANGE"
    /\ vec = was

\* C20: the vector copy_vector returns has the len, the elements and the
\* alloc of its source and leaves the source as it is; a later call that
\* changes the copy leaves len, alloc and the elements of the source
\* unchanged, and a later call that changes the source leaves those of the
\* copy unchanged.
C20_CopyIsEqualAndIndependent ==
    [][/\ (op' = "copy_vector" /\ ret')
          => /\ copy'.made
             /\ copy'.v.len = vec.len
             /\ copy'.v.data = vec.data
             /\ copy'.v.alloc = vec.alloc
             /\ vec' = vec
       /\ op' = "on_copy" => vec' = vec
       /\ (op' \in VecMutators /\ copy.made) => copy'.v = copy.v]_vars

\* an element was pushed to the front of the copy of a vector of three; the
\* source still starts with its own, different, first element
C20_Witness ==
    /\ op = "on_copy" /\ arg[1] = "push_front_vector" /\ ret = TRUE
    /\ vec.len = 3
    /\ copy.v.len = 4
    /\ copy.v.data = <<arg[2]>> \o vec.data
    /\ vec.data[1] # arg[2]
    /\ vec = was

----------------------------------------------------------------------------
(* Claims about string_t *)

\* the string_t b is well formed: room for the text and its NUL, the NUL at
\* index len, and no NUL before it
WellFormed(b) ==
    /\ b.alloc >= b.len + 1
    /\ Len(b.str) = b.alloc
    /\ b.str[b.len + 1] = 0
    /\ \A i \in 1 .. b.len : b.str[i] # 0

\* C21: every string_t reachable by init_string, the two concat functions,
\* reserve_string and copy_string, failed calls included, has
\* alloc >= len + 1, a NUL at index len and no NUL before index len
C21_StringWellFormed ==
    unit = "string" => WellFormed(str1) /\ (str2.made => WellFormed(str2.b))

\* C21 witness: a text grown by a concatenation and then given spare
\* capacity by reserve_string, with a copy of it
C21_Witness ==
    /\ unit = "string" /\ ~crashed /\ str2.made
    /\ str1.len >= 3 /\ str1.alloc > str1.len + 1
    /\ errno = "ENOMEM"

\* the text of the string_t b: the len bytes before index len
Content(b) == SubSeq(b.str, 1, b.len)

\* the last call was a concatenation onto str1 and it returned true
ConcatSucceeded ==
    /\ op \in {"string_lit_concat", "string_string_concat"}
    /\ ~crashed
    /\ ret = TRUE

\* C22: a successful concatenation appends the text: the content is the
\* old content followed by the appended text, the length is the sum of the
\* two lengths, and the capacity is unchanged if it was at least the new
\* length + 1 and exactly the new length + 1 otherwise
C22_ConcatAppends ==
    [][ConcatSucceeded' =>
          LET appended == IF op' = "string_lit_concat" THEN arg'[1]
                          ELSE Content(str2.b)
              new_len == str1.len + Len(appended)
          IN  /\ Content(str1') = Content(str1) \o appended
              /\ str1'.len = new_len
              /\ str1'.alloc = IF str1.alloc >= new_len + 1 THEN str1.alloc
                               ELSE new_len + 1]_vars

\* C22 witness: a text was appended inside spare capacity
C22_Witness ==
    /\ unit = "string" /\ ConcatSucceeded
    /\ str1.len >= 2
    /\ str1.alloc > str1.len + 1
    /\ (op = "string_lit_concat" => arg[1] # <<>>)
    /\ (op = "string_string_concat" => str2.b.len > 0)

\* C23: reserve_string(str, len) with len <= alloc returns false and
\* changes nothing; with len > alloc and a successful realloc it returns
\* true, alloc becomes len, and the content and the length are unchanged
C23_ReserveSetsCapacity ==
    [][(op' = "reserve_string" /\ ~crashed') =>
          LET len == arg'[1]
              r == arg'[2]
          IN  IF len <= str1.alloc
              THEN ret' = FALSE /\ str1' = str1
              ELSE r = "ok" =>
                     /\ ret' = TRUE
                     /\ str1'.alloc = len
                     /\ str1'.len = str1.len
                     /\ Content(str1') = Content(str1)]_vars

\* C23 witness: reserve_string enlarged a non-empty string by more than one
\* byte
C23_Witness ==
    /\ unit = "string" /\ op = "reserve_string" /\ ~crashed /\ ret = TRUE
    /\ str1.len >= 1
    /\ arg[1] = str1.alloc
    /\ str1.alloc >= str1.len + 3

\* C24: copy_string(s) yields, for every reachable s, a string with the
\* content, the length and the full capacity of s; the copy has its own
\* storage, so a concatenation onto the copy leaves s unchanged
C24_CopyKeepsCapacity ==
    [][/\ op' = "copy_string" =>
            /\ ~crashed'
            /\ str2'.made
            /\ Content(str2'.b) = Content(str1)
            /\ str2'.b.len = str1.len
            /\ str2'.b.alloc = str1.alloc
            /\ str1' = str1
       /\ op' = "str2_lit_concat" => str1' = str1]_vars

\* the index of the first position, among the first n, where a and b differ
\* (0 if there is none)
FirstDifference(a, b, n) ==
    IF \E i \in 1 .. n : a[i] # b[i]
    THEN CHOOSE i \in 1 .. n : a[i] # b[i] /\ \A j \in 1 .. i - 1 : a[j] = b[j]
    ELSE 0

\* a precedes b in lexicographic order of unsigned bytes
LexLess(a, b) ==
    LET n == IF Len(a) < Len(b) THEN Len(a) ELSE Len(b)
        d == FirstDifference(a, b, n)
    IN  IF d = 0 THEN Len(a) < Len(b) ELSE a[d] < b[d]

\* the last call compared the text of str1 with another text
Compared == op \in {"compare_strings_lit", "compare_strings_string"} /\ ~crashed

\* the text str1 was compared with
ComparedWith == IF op = "compare_strings_lit" THEN arg[1] ELSE Content(str2.b)

\* C25: the compare functions return the difference of the first differing
\* bytes, taken as unsigned bytes, within the first min(lenA, lenB) bytes,
\* and lenA - lenB if those all match; so the result is 0 exactly when the
\* texts are equal, negative when the first is lexicographically smaller
\* and positive when it is greater
C25_CompareIsLexicographic ==
    Compared =>
        LET a == Content(str1)
            b == ComparedWith
            n == IF Len(a) < Len(b) THEN Len(a) ELSE Len(b)
            d == FirstDifference(a, b, n)
        IN  /\ ret = IF d = 0 THEN Len(a) - Len(b) ELSE a[d] - b[d]
            /\ (ret = 0) <=> (a = b)
            /\ (ret < 0) <=> LexLess(a, b)
            /\ (ret > 0) <=> LexLess(b, a)

\* C25 witness: the first text is the longer one, and the smaller one by
\* its first byte, which is compared with a byte above 127
C25_Witness ==
    /\ unit = "string" /\ Compared
    /\ LET a == Content(str1)
           b == ComparedWith
       IN  /\ Len(a) > Len(b) /\ Len(b) >= 1
           /\ a[1] = 97 /\ b[1] = 200
    /\ ret = 0 - 103

----------------------------------------------------------------------------
(* Further claims about dict_t *)

\* C26: update_dict(key, value) on a key that exists returns true, after
\* it get_dict_value(key) returns the new value, and every other binding,
\* hash_size, len and alloc are unchanged; on a key that does not exist it
\* returns false and the whole dictionary is unchanged
C26_UpdateChangesOneValue ==
    [][(op' = "update_dict" /\ ~crashed') =>
          LET key == arg'[1]
              value == arg'[2]
          IN  IF key \in LiveKeys(dict)
              THEN /\ ret' = TRUE
                   /\ get_dict_value(dict', key) = value
                   /\ \A k \in Keys \ {key} :
                          get_dict_value(dict', k) = get_dict_value(dict, k)
                   /\ dict'.hash_size = dict.hash_size
                   /\ dict'.len = dict.len
                   /\ dict'.alloc = dict.alloc
              ELSE ret' = FALSE /\ dict' = dict]_vars

\* C26 witness: update_dict changed the value of a key that is not the
\* first node of its chain
C26_Witness ==
    /\ unit = "dict" /\ op = "update_dict" /\ ~crashed /\ ret = TRUE
    /\ LET index == hash_function(arg[1]) % dict.alloc
           n == FindInChain(Chain(dict, index), arg[1])
       IN  /\ n > 1
           /\ Chain(dict, index)[n].value = arg[2]
           /\ Chain(dict, index)[1].value # arg[2]

\* the buckets whose chain holds at least one pair
NonEmptyBuckets(d) == {i \in 1 .. d.alloc : d.keyValues[i] # <<>>}

\* C27: dict_size (the len counter) equals the number of buckets whose
\* chain holds at least one pair, after any sequence of insert_dict and
\* pop_dict calls, several keys sharing a bucket included
C27_LenCountsNonEmptyBuckets ==
    unit = "dict" => dict.len = Cardinality(NonEmptyBuckets(dict))

----------------------------------------------------------------------------
(* Further claims about xsec_t and vector_t *)

\* the state is the one right after init_xsec or init_vector returned
Created == op = "init" /\ unit \in {"xsec", "vector"}

\* C28: for every n, 0 included, an xsec_t or a vector_t created with
\* initial capacity n has size 0 and capacity n
C28_CreatedEmptyWithCapacity ==
    Created =>
        LET n == arg[1]
        IN  IF unit = "xsec"
            THEN xsec.len = 0 /\ xsec.alloc = n
            ELSE vec.len = 0 /\ vec.alloc = n

\* C28 witness: a table created with initial capacity 0
C28_Witness ==
    Created /\ unit = "xsec" /\ arg = <<0>> /\ xsec.alloc = 0 /\ xsec.len = 0

\* the three indexed reads of an xsec_t
XsecGetters == {"get_xsec", "get_xsec_energy", "get_xsec_data"}

\* the failure value of the getter `name`
XsecFailure(name) ==
    IF name = "get_xsec_data" THEN <<XsecError, XsecError>> ELSE XsecError

\* C29: get_xsec, get_xsec_energy and get_xsec_data called with an index
\* >= len (any index on an empty table included) return the failure value
\* -1.0 (in both fields for get_xsec_data) whatever the arrays hold, so no
\* slot at or beyond len is read, and leave the table unchanged
C29_GetOutOfRangeFails ==
    [][(op' \in XsecGetters /\ arg'[1] >= xsec.len) =>
          /\ ~crashed'
          /\ ret' = XsecFailure(op')
          /\ xsec' = xsec
          /\ live' = live]_vars

\* C29 witness: get_xsec_data was called on a non-empty table with the
\* index equal to its length
C29_Witness ==
    /\ unit = "xsec" /\ op = "get_xsec_data" /\ ~crashed
    /\ xsec.len >= 1
    /\ arg[1] = xsec.len
    /\ ret = <<XsecError, XsecError>>

\* C30: get_vector with an index >= len returns FLT_MIN, the value the pop
\* functions return on failure, and leaves the vector unchanged
C30_GetOutOfRangeReturnsFltMin ==
    [][(op' = "get_vector" /\ ~crashed' /\ arg'[1] >= vec.len) =>
          ret' = FLT_MIN /\ vec' = vec]_vars

----------------------------------------------------------------------------
(* Claims about free_xsec *)

\* C31: free_xsec called with a null handle reports the error (errno
\* EINVAL) and returns without reading through the null handle
C31_FreeNullHandleReturns ==
    [][(op' = "free_xsec" /\ arg' = <<"NULL">>) =>
          ~crashed' /\ errno' = "EINVAL" /\ xsec' = xsec]_vars

----------------------------------------------------------------------------
(* Claims about the order and the place of the stores of an insertion *)

\* the block `data` after the store of value x in slot index
Stored(data, index, x) ==
    [k \in 1 .. (IF index + 1 > Len(data) THEN index + 1 ELSE Len(data)) |->
       IF k = index + 1 THEN x
       ELSE IF k <= Len(data) THEN data[k] ELSE FLT_MIN]

\* the block `data` after the stores of the events ev, in their order
RECURSIVE Replay(_, _)
Replay(ev, data) ==
    IF ev = <<>> THEN data
    ELSE Replay(Tail(ev),
                IF ev[1].kind = "growth_check" THEN data
                ELSE Stored(data, ev[1].index, ev[1].value))

\* in the events ev every shift comes before the growth check
ShiftBeforeGrowthCheck(ev) ==
    \A i, j \in DOMAIN ev :
        (ev[i].kind = "shift" /\ ev[j].kind = "growth_check") => i < j

\* in the events ev the growth check comes before every shift and store
GrowthCheckFirst(ev) ==
    \A i, j \in DOMAIN ev :
        (ev[i].kind # "growth_check" /\ ev[j].kind = "growth_check") => j < i

\* C32 as stated: in push_front_vector and insert_vector the right shift of
\* the elements at or after the insertion point is performed before the
\* growth check is applied
C32_ShiftBeforeGrowthCheck ==
    [][(op' \in {"push_front_vector", "insert_vector"} /\ ~crashed') =>
          \A ev \in {VecEvents(op', vec, arg')} : ShiftBeforeGrowthCheck(ev)]_vars

\* C32 as the code has it: in push_front_vector and insert_vector the
\* growth check (and its realloc) comes first; the shift and the store of
\* the new element follow it and make up the vector the call leaves; when
\* the realloc fails nothing is shifted
C32_GrowthCheckBeforeShift ==
    [][(op' \in {"push_front_vector", "insert_vector"} /\ ~crashed') =>
          \A ev \in {VecEvents(op', vec, arg')} :
              /\ GrowthCheckFirst(ev)
              /\ IF ret'
                 THEN vec'.data = Replay(ev, vec.data)
                 ELSE /\ vec' = vec
                      /\ \A i \in DOMAIN ev : ev[i].kind = "growth_check"]_vars

\* C32 witness: push_front_vector on a full, non-empty vector grew the
\* block and then shifted every element
C32_Witness ==
    /\ unit = "vector" /\ op = "push_front_vector" /\ ~crashed /\ ret = TRUE
    /\ was.len >= 2
    /\ was.alloc = was.len
    /\ vec.alloc = NewAlloc(was.alloc)
    /\ vec.data = <<arg[1]>> \o was.data

----------------------------------------------------------------------------
(* Further claims about insert_dict *)

\* C33: an insert_dict that fails because the key is already stored leaves
\* the whole dictionary unchanged: alloc, hash_size, len and every binding
\* are as before the call, whatever the load factor was
C33_DuplicateInsertChangesNothing ==
    [][(op' = "insert_dict" /\ ~crashed' /\ arg'[1] \in LiveKeys(dict)) =>
          /\ ret' = FALSE
          /\ dict'.alloc = dict.alloc
          /\ dict'.hash_size = dict.hash_size
          /\ dict'.len = dict.len
          /\ \A k \in Keys : get_dict_value(dict', k) = get_dict_value(dict, k)]_vars

\* every store of the events ev goes to a slot below the capacity the block
\* has at that moment
StoresInsideBlock(ev) ==
    \A i \in DOMAIN ev : ev[i].kind # "growth_check" => ev[i].index < ev[i].alloc

\* C34: no insertion writes outside its allocation: in push_xsec,
\* push_back_vector, push_front_vector and insert_vector every store of an
\* element and of a shifted element lands at an index below the capacity
\* as it is at the moment of the store, in every reachable state, len = alloc
\* and alloc = 0 included; the stores make up the container the call leaves
C34_StoresInsideAllocation ==
    [][/\ (op' \in VecInsertionCalls /\ ~crashed') =>
            \A ev \in {VecEvents(op', vec, arg')} :
                /\ StoresInsideBlock(ev)
                /\ ret' => /\ vec'.data = Replay(ev, vec.data)
                           /\ vec'.alloc = ev[Len(ev)].alloc
       /\ (op' = "push_xsec" /\ ~crashed' /\ XsecValid) =>
            \A ev \in {push_xsec_events(xsec, arg'[1], arg'[2], arg'[3])} :
                /\ StoresInsideBlock(ev)
                /\ ret' => /\ xsec'.xs = Stored(xsec.xs, ev[2].index, ev[2].value)
                           /\ xsec'.energy =
                                Stored(xsec.energy, ev[3].index, ev[3].value)
                           /\ xsec'.alloc = ev[3].alloc]_vars

\* C34 witness: insert_vector in the middle of a full vector, whose last
\* element was shifted into the slot the growth added
C34_Witness ==
    /\ unit = "vector" /\ op = "insert_vector" /\ ~crashed /\ ret = TRUE
    /\ was.alloc = was.len
    /\ 0 < arg[2] /\ arg[2] < was.len
    /\ vec.len = was.len + 1
    /\ vec.data[vec.len] = was.data[was.len]
    /\ vec.len <= vec.alloc

\* C35: the capacity of a dict_t is driven by the live entries only: an
\* insert_dict made while the number of live keys is below 0.7 * alloc
\* does not change alloc; in particular inserting and removing one key
\* again and again on a fresh dictionary keeps alloc at 3
C35_CapacityDrivenByLiveKeys ==
    [][(/\ op' = "insert_dict" /\ ~crashed'
        /\ 10 * Cardinality(LiveKeys(dict)) < 7 * dict.alloc) =>
          dict'.alloc = dict.alloc]_vars

----------------------------------------------------------------------------
(* Claims about the binary search of interp_xsec *)

\* the energy the last interp_xsec call was made with
QueriedEnergy == IF op = "interp_xsec" THEN arg[1] ELSE NaN

\* C36: the binary search of interp_xsec stays in bounds: for every table
\* with len >= 1 and ascending keys and every query energy the loop ends,
\* every index used to read a key lies in 0 .. len - 1 (no wrapped-around
\* high is used as an index), and the lower and upper indices read for the
\* interpolation satisfy 0 <= lower < upper <= len - 1
C36_SearchStaysInBounds ==
    [][(/\ op' \in {"interp_xsec", "interp_xsec_nan"}
        /\ xsec.len >= 1 /\ Ascending(xsec.energy)) =>
          LET r == find_indices(xsec.energy, xsec.len, QueriedEnergy')
          IN  /\ ~r.oob
              /\ unit' # "hung"
              /\ (~r.found /\ errno' # "ERANGE") =>
                    (0 <= r.lower /\ r.lower < r.upper
                       /\ r.upper <= xsec.len - 1)]_vars

\* the part of C36 that concerns energies that are numbers
SearchStaysInBoundsForNumbers ==
    [][(op' = "interp_xsec" /\ xsec.len >= 1 /\ Ascending(xsec.energy)) =>
          LET r == find_indices(xsec.energy, xsec.len, arg'[1])
          IN  /\ ~r.oob
              /\ (~r.found /\ errno' # "ERANGE") =>
                    (0 <= r.lower /\ r.lower < r.upper
                       /\ r.upper <= xsec.len - 1)]_vars

============================================================================
